---- MODULE Spec2Model ----
(***************************************************************************)
(* A model of the xlsximport / xlsxexport SQLite extensions (the opus,     *)
(* gemini and copilot variants).  Each part of the program is modelled by  *)
(* its own group of variables and its own specification; a specification   *)
(* keeps the variables of the other groups at their "off" value.           *)
(*                                                                         *)
(* C strings are sequences of one-character strings, <<>> being "", and    *)
(* NULL is the null pointer.  Column letters are sequences of ASCII codes, *)
(* because the code computes with them.  Allocation is assumed to succeed. *)
(***************************************************************************)
EXTENDS Integers, Sequences, FiniteSets, TLC

VARIABLES
  col_pc,       \* column-letter group: "off", "input", "encoded", "decoded"
  col_n,        \* the 1-based column number under test
  col_letters,  \* the letters an encoder produced for col_n - 1
  col_num,      \* the number a decoder read back from col_letters
  col_row,      \* the row number parse_cell_ref read (0 when col_to_num decoded)
  sst_pc,       \* shared-string table group: "off", "run"
  sst_items,    \* sst.items[0 .. count-1]
  sst_cap,      \* sst.cap
  sst_prev,     \* sst.items before the last sst_index call
  sst_txt,      \* argument of the last sst_index call
  sst_ret,      \* value the last sst_index call returned
  sst_log,      \* every <<text, index>> pair sst_index has returned so far
  ss_pc,        \* sharedStrings.xml parsers: "off", "parse"
  ss_impl,      \* which importer parses: "opus", "gemini", "copilot"
  ss_open,      \* the elements open below <sst>, outermost first
  ss_p,         \* the parser's user data: strings, in_t, in_si, current
  ss_doc,       \* per closed <si>: the character data of its <t> elements, joined
  ss_cur,       \* the same for the <si> that is open
  ss_runs,      \* number of <t> elements started in the open <si>
  ss_chunks,    \* number of character-data calls since the last tag
  ws_pc,        \* worksheet import: "off", "parse", "done"
  ws_impl,      \* which importer runs: "opus", "copilot", "part_000", "gemini"
  ws_prof,      \* the kind of document read, see WsProfiles
  ws_open,      \* the elements open below <sheetData>, outermost first
  ws_src,       \* the rows declared so far: r, cells (col, t, v)
  ws_p,         \* the parser's user data
  ws_db,        \* the table of the sheet: created, cols, rows (src, vals)
  ws_rc,        \* result of the sheet's pass: "none", "ok", "error"
  ws_count,     \* tables_created
  rt_pc,        \* export and re-import: "off", "export", "parse", "done"
  rt_table,     \* the table exported: cols, rows of values (type, v)
  rt_sst,       \* the exporter's shared-string table: items, cap
  rt_q,         \* the worksheet written, as the parser events not yet read
  rt_p,         \* the importer's parser user data
  rt_db,        \* the table the importer creates: created, cols, rows
  wb_pc,        \* one xlsx_import call: "off", "loop", "done"
  wb_impl,      \* which importer runs: "opus", "copilot", "part_000", "gemini"
  wb_prof,      \* the kind of workbook and arguments, see WbInit
  wb_sheets,    \* the manifest xl/workbook.xml: name, sheetId per <sheet>
  wb_sel,       \* the arguments after the file name: type, text
  wb_zip,       \* xl/worksheets/sheetN.xml per N: "missing", "ok", "bad"
  wb_i,         \* the sheet loop's index, 0-based
  wb_db,        \* the tables of the database in creation order: name, tab
  wb_log,       \* per sheet the loop has passed: pos, stream read, table written
  wb_count,     \* tables_created / sheets_imported
  wb_rc,        \* the call's result: "none", "ok" (the count), "error"
  sn_pc,        \* sheet names of one xlsx_export call: "off", "loop", "done", "hang"
  sn_impl,      \* which exporter runs: "opus", "copilot", "copilot_lxw", "part_002"
  sn_tables,    \* the table names given, argv[1..]
  sn_names,     \* the sheet names derived so far, in argument order
  ex_pc,        \* worksheet of one exported table: "off", "export", "done"
  ex_impl,      \* which exporter runs: "opus", "copilot", "part_002"
  ex_table,     \* the table exported: cols, rows of values (type, v)
  ex_sst,       \* the shared strings the exporter wrote (copilot)
  ex_out,       \* the worksheet written, as the events a parser reads
  tr_pc,        \* texts of one xlsx_export call: "off", "export", "done"
  tr_impl,      \* which exporter runs: "opus", "copilot", "part_002"
  tr_tables,    \* the tables exported: name, cols and rows of text lengths
  tr_out,       \* per table processed: the lengths of the texts written
  tr_warn,      \* ExportWarnings of the call
  tr_result,    \* what the call returns: "none" before it ends
  pk_pc,        \* one xlsx_export call as a whole: "off", "call", "done"
  pk_impl,      \* which exporter runs: "opus", "copilot", "opus_lxw", "part_002"
  pk_db,        \* the tables of the database in rowid order: name, scan
  pk_args,      \* the table names given, argv[1..]
  pk_parts,     \* the archive parts written to the file, in order
  pk_sheets,    \* the sheets of xl/workbook.xml written
  pk_rels,      \* the relationships of xl/_rels/workbook.xml.rels written
  pk_result,    \* what the call returns
  pk_bufs,      \* copilot: what became of each worksheets[i] buffer
  ce_pc,        \* cells of one row through a worksheet parser: "off", "parse"
  ce_impl,      \* which importer parses: "opus", "copilot"
  ce_p,         \* the parser state of the importer
  ce_doc,       \* the cell elements of the row read so far
  ce_q          \* the handler calls still to come for the cell being read

colVars == <<col_pc, col_n, col_letters, col_num, col_row>>
sstVars == <<sst_pc, sst_items, sst_cap, sst_prev, sst_txt, sst_ret, sst_log>>
ssVars == <<ss_pc, ss_impl, ss_open, ss_p, ss_doc, ss_cur, ss_runs, ss_chunks>>
wsVars == <<ws_pc, ws_impl, ws_prof, ws_open, ws_src, ws_p, ws_db, ws_rc, ws_count>>
rtVars == <<rt_pc, rt_table, rt_sst, rt_q, rt_p, rt_db>>
wbVars == <<wb_pc, wb_impl, wb_prof, wb_sheets, wb_sel, wb_zip, wb_i, wb_db, wb_log,
           wb_count, wb_rc>>
snVars == <<sn_pc, sn_impl, sn_tables, sn_names>>
exVars == <<ex_pc, ex_impl, ex_table, ex_sst, ex_out>>
trVars == <<tr_pc, tr_impl, tr_tables, tr_out, tr_warn, tr_result>>
pkVars == <<pk_pc, pk_impl, pk_db, pk_args, pk_parts, pk_sheets, pk_rels, pk_result, pk_bufs>>
ceVars == <<ce_pc, ce_impl, ce_p, ce_doc, ce_q>>
vars == <<colVars, sstVars, ssVars, wsVars, rtVars, wbVars, snVars, exVars, trVars,
          pkVars, ceVars>>

\* What the actions of one group leave alone: the variables of the others.
notCol == <<sstVars, ssVars, wsVars, rtVars, wbVars, snVars, exVars, trVars, pkVars, ceVars>>
notSst == <<colVars, ssVars, wsVars, rtVars, wbVars, snVars, exVars, trVars, pkVars, ceVars>>
notSs == <<colVars, sstVars, wsVars, rtVars, wbVars, snVars, exVars, trVars, pkVars, ceVars>>
notWs == <<colVars, sstVars, ssVars, rtVars, wbVars, snVars, exVars, trVars, pkVars, ceVars>>
notRt == <<colVars, sstVars, ssVars, wsVars, wbVars, snVars, exVars, trVars, pkVars, ceVars>>
notWb == <<colVars, sstVars, ssVars, wsVars, rtVars, snVars, exVars, trVars, pkVars, ceVars>>
notSn == <<colVars, sstVars, ssVars, wsVars, rtVars, wbVars, exVars, trVars, pkVars, ceVars>>
notEx == <<colVars, sstVars, ssVars, wsVars, rtVars, wbVars, snVars, trVars, pkVars, ceVars>>
notTr == <<colVars, sstVars, ssVars, wsVars, rtVars, wbVars, snVars, exVars, pkVars, ceVars>>
notPk == <<colVars, sstVars, ssVars, wsVars, rtVars, wbVars, snVars, exVars, trVars, ceVars>>
notCe == <<colVars, sstVars, ssVars, wsVars, rtVars, wbVars, snVars, exVars, trVars, pkVars>>

\* The null pointer: no string of the model holds this element.
NULL == <<"NULL">>

Max(a, b) == IF a >= b THEN a ELSE b
Min(a, b) == IF a <= b THEN a ELSE b

(***************************************************************************)
(* Column-letter arithmetic                                                *)
(***************************************************************************)

\* Largest column number the round trip is checked for (Excel's XFD).
MaxColumn == 16384

ChA == 65
ChZ == 90
Cha == 97
Chz == 122
Ch0 == 48
Ch9 == 57

isalpha(c) == (c >= ChA /\ c <= ChZ) \/ (c >= Cha /\ c <= Chz)
isdigit(c) == c >= Ch0 /\ c <= Ch9
toupper(c) == IF c >= Cha /\ c <= Chz THEN c - (Cha - ChA) ELSE c

\* atoi on a string of the model: the leading decimal digits, 0 when none.
RECURSIVE atoi_from(_, _, _)
atoi_from(s, i, acc) ==
  IF i > Len(s) \/ ~isdigit(s[i]) THEN acc
  ELSE atoi_from(s, i + 1, acc * 10 + (s[i] - Ch0))
atoi(s) == atoi_from(s, 1, 0)

\* opus importer: the loop shared by col_to_num and parse_cell_ref.
\* Returns <<number, index of the first character not consumed>>.
RECURSIVE col_letters_loop(_, _, _)
col_letters_loop(s, i, num) ==
  IF i > Len(s) \/ ~isalpha(s[i]) THEN <<num, i>>
  ELSE col_letters_loop(s, i + 1, num * 26 + (toupper(s[i]) - ChA + 1))

col_to_num(col) == col_letters_loop(col, 1, 0)[1]

\* parse_cell_ref returns the column and stores atoi(rest) in *row.
parse_cell_ref(ref) ==
  LET r == col_letters_loop(ref, 1, 0)
  IN [col |-> r[1], row |-> atoi(SubSeq(ref, r[2], Len(ref)))]

Reverse(s) == [i \in 1..Len(s) |-> s[Len(s) + 1 - i]]

\* opus exporter col_to_letter: temp[] receives the letters last-first.
RECURSIVE col_to_letter_loop(_, _)
col_to_letter_loop(col, temp) ==
  IF col > 0
  THEN col_to_letter_loop((col - 1) \div 26, Append(temp, ChA + ((col - 1) % 26)))
  ELSE temp

\* A base-26 encoder with a zero digit: the decrement before the modulo is lost.
col_to_letter_zero_digit(col) ==
  LET RECURSIVE loop(_, _)
      loop(c, temp) == IF c > 0 THEN loop(c \div 26, Append(temp, ChA + (c % 26)))
                       ELSE temp
  IN Reverse(loop(col + 1, <<>>))

col_to_letter(col) == Reverse(col_to_letter_loop(col + 1, <<>>))

\* copilot exporter col_to_letters(col, out, outsz): buf[16] bounds the loop,
\* outsz bounds the copy.
RECURSIVE col_to_letters_loop(_, _)
col_to_letters_loop(v, buf) ==
  IF v > 0 /\ Len(buf) < 16 - 1
  THEN col_to_letters_loop((v - 1) \div 26, Append(buf, ChA + ((v - 1) % 26)))
  ELSE buf

col_to_letters(col, outsz) ==
  LET buf == col_to_letters_loop(col + 1, <<>>)
      rev == Reverse(buf)
  IN SubSeq(rev, 1, Min(Len(rev), outsz - 1))

\* sizeof(collet) at the call sites of col_to_letters.
ColletSize == 8

\* Row numbers appended to the letters to form the cell references parsed back.
RefRowDigits == {<<Ch0 + 1>>, <<Ch0 + 2, Ch0>>}

ColOff ==
  /\ col_pc = "off" /\ col_n = 0 /\ col_letters = <<>> /\ col_num = 0 /\ col_row = 0

ColInit ==
  /\ col_pc = "input"
  /\ col_n \in 1..MaxColumn
  /\ col_letters = <<>> /\ col_num = 0 /\ col_row = 0

EncodeOpus ==
  /\ col_pc = "input"
  /\ col_letters' = col_to_letter(col_n - 1)
  /\ col_pc' = "encoded"
  /\ UNCHANGED <<col_n, col_num, col_row>>
  /\ UNCHANGED notCol

EncodeCopilot ==
  /\ col_pc = "input"
  /\ col_letters' = col_to_letters(col_n - 1, ColletSize)
  /\ col_pc' = "encoded"
  /\ UNCHANGED <<col_n, col_num, col_row>>
  /\ UNCHANGED notCol

DecodeColToNum ==
  /\ col_pc = "encoded"
  /\ col_num' = col_to_num(col_letters)
  /\ col_row' = 0
  /\ col_pc' = "decoded"
  /\ UNCHANGED <<col_n, col_letters>>
  /\ UNCHANGED notCol

DecodeParseCellRef ==
  /\ col_pc = "encoded"
  /\ \E d \in RefRowDigits :
       LET r == parse_cell_ref(col_letters \o d)
       IN col_num' = r.col /\ col_row' = r.row
  /\ col_pc' = "decoded"
  /\ UNCHANGED <<col_n, col_letters>>
  /\ UNCHANGED notCol

ColNext == EncodeOpus \/ EncodeCopilot \/ DecodeColToNum \/ DecodeParseCellRef

\* The spot values of the column-letter arithmetic.
ColFixtures ==
  { <<(<<ChZ>>), 26>>, <<(<<ChA, ChA>>), 27>>, <<(<<ChA, ChZ>>), 52>>,
    <<(<<ChA + 1, ChA>>), 53>>, <<(<<ChZ, ChZ>>), 702>>,
    <<(<<ChA, ChA, ChA>>), 703>> }

(* C3: for every column number n in 1..16384, decoding (col_to_num or      *)
(* parse_cell_ref) the letters either exporter's encoder produces for the  *)
(* 0-based index n-1 gives n again, parse_cell_ref also reads the row      *)
(* number back, and the decoded letters agree with the fixtures Z=26,      *)
(* AA=27, AZ=52, BA=53, ZZ=702, AAA=703.                                   *)
Thm_C3_ColumnRoundTrip ==
  col_pc = "decoded" =>
    /\ col_num = col_n
    /\ col_row \in {0, 1, 20}
    /\ \A f \in ColFixtures : col_letters = f[1] => col_num = f[2]

Wit_C3_ColumnRoundTrip ==
  /\ col_pc = "decoded"
  /\ col_n = 703
  /\ col_letters = <<ChA, ChA, ChA>>
  /\ col_num = 703
  /\ col_row = 20

(***************************************************************************)
(* Shared-string table of the copilot exporter                             *)
(***************************************************************************)

\* Longest pool the model builds.
MaxPool == 3

SstTexts == {<<>>, <<"a">>, <<"b">>, <<"a", "b">>}

\* An interner that never looks the text up.
sst_find_never(items, txt, i) == -1

\* Index (0-based) of the first item equal to txt, -1 when there is none:
\* the for loop of sst_index.
RECURSIVE sst_find(_, _, _)
sst_find(items, txt, i) ==
  IF i >= Len(items) THEN -1
  ELSE IF items[i + 1] = txt THEN i
  ELSE sst_find(items, txt, i + 1)

\* sst_index(s, txt): the new <<items, cap, returned index>>.
sst_index(items, cap, txt0) ==
  LET txt == IF txt0 = NULL THEN <<>> ELSE txt0
      found == sst_find(items, txt, 0)
      ncap == IF Len(items) >= cap THEN (IF cap # 0 THEN cap * 2 ELSE 64) ELSE cap
  IN IF found >= 0 THEN <<items, cap, found>>
     ELSE <<Append(items, txt), ncap, Len(items)>>

SstOff ==
  /\ sst_pc = "off" /\ sst_items = <<>> /\ sst_cap = 0 /\ sst_prev = <<>>
  /\ sst_txt = <<>> /\ sst_ret = 0 /\ sst_log = {}

\* sst_init
SstInit ==
  /\ sst_pc = "run" /\ sst_items = <<>> /\ sst_cap = 0 /\ sst_prev = <<>>
  /\ sst_txt = <<>> /\ sst_ret = 0 /\ sst_log = {}

SstIndex ==
  /\ sst_pc = "run"
  /\ \E txt \in SstTexts \cup {NULL} :
       LET r == sst_index(sst_items, sst_cap, txt)
       IN /\ Len(r[1]) <= MaxPool
          /\ sst_items' = r[1]
          /\ sst_cap' = r[2]
          /\ sst_ret' = r[3]
          /\ sst_txt' = txt
          /\ sst_prev' = sst_items
          /\ sst_log' = sst_log \cup {<<IF txt = NULL THEN <<>> ELSE txt, r[3]>>}
  /\ UNCHANGED sst_pc
  /\ UNCHANGED notSst

SstNext == SstIndex

(* C5: sst_index returns the index a text already has when that exact text *)
(* is in the pool, and otherwise appends the text and returns the new      *)
(* index; the same text always gets the same index, two distinct texts get *)
(* two distinct indices, and the pool never holds the same text twice.     *)
Thm_C5_InternIsStable ==
  (sst_pc = "run" /\ sst_log # {}) =>
    LET t == IF sst_txt = NULL THEN <<>> ELSE sst_txt
    IN /\ IF \E i \in 1..Len(sst_prev) : sst_prev[i] = t
          THEN sst_items = sst_prev /\ sst_prev[sst_ret + 1] = t
          ELSE sst_items = Append(sst_prev, t) /\ sst_ret = Len(sst_prev)
       /\ \A p, q \in sst_log : (p[1] = q[1]) <=> (p[2] = q[2])
       /\ \A i, j \in 1..Len(sst_items) : sst_items[i] = sst_items[j] => i = j

Wit_C5_InternIsStable ==
  /\ sst_pc = "run"
  /\ sst_prev = <<(<<"a">>), (<<"b">>)>>
  /\ sst_txt = <<"a">>
  /\ sst_ret = 0
  /\ sst_items = sst_prev
  /\ <<(<<"b">>), 1>> \in sst_log


(***************************************************************************)
(* Parsing xl/sharedStrings.xml (the three importers)                      *)
(***************************************************************************)

\* <si> elements per document, <t> elements per <si>, character-data calls
\* per stretch of text.
MaxSi == 2
MaxRuns == 2
MaxChunks == 1

\* The character data expat hands over in one call.
SsChunks == {<<"a">>, <<"b">>}

\* Elements of a string item: <si>, a text <t>, a rich-text run <r>, a
\* phonetic run <rPh>.
SsElements == {"si", "t", "r", "rPh"}

\* Where the schema lets an element start, given the open elements.
SsMayStart(open, name) ==
  CASE name = "si" -> open = <<>>
    [] name = "t" -> open # <<>> /\ open[Len(open)] \in {"si", "r", "rPh"}
    [] name \in {"r", "rPh"} -> open # <<>> /\ open[Len(open)] = "si"
    [] OTHER -> FALSE

\* strbuf / ss_append_text / sb_append_buf: the buffer with the data appended;
\* a buffer that holds nothing yet (NULL) becomes the data.
buf_append(buf, data) == IF buf = NULL THEN data ELSE buf \o data

\* opus importer, ss_start_element: <t> restarts the accumulated text.
opus_ss_start(p, name) ==
  IF name = "t"
  THEN [p EXCEPT !.in_t = TRUE,
                 !.current = IF p.current # NULL THEN <<>> ELSE NULL]
  ELSE p

\* opus importer, ss_end_element with ss_add_string.
opus_ss_end(p, name) ==
  IF name = "si"
  THEN [p EXCEPT !.strings = Append(p.strings,
                                    IF p.current # NULL THEN p.current ELSE <<>>),
                 !.current = IF p.current # NULL THEN <<>> ELSE NULL]
  ELSE IF name = "t" THEN [p EXCEPT !.in_t = FALSE]
  ELSE p

\* opus importer, ss_char_data with ss_append_text.
opus_ss_char(p, data) ==
  IF p.in_t THEN [p EXCEPT !.current = buf_append(p.current, data)] ELSE p

\* gemini importer, shared_strings_start: strbuf_init leaves data = NULL.
gemini_ss_start(p, name) ==
  IF name = "t" THEN [p EXCEPT !.in_t = TRUE, !.current = NULL] ELSE p

\* gemini importer, shared_strings_end: every </t> adds a pool entry.
gemini_ss_end(p, name) ==
  IF name = "t"
  THEN [p EXCEPT !.in_t = FALSE, !.strings = Append(p.strings, p.current)]
  ELSE p

\* gemini importer, shared_strings_char.
gemini_ss_char(p, data) ==
  IF p.in_t THEN [p EXCEPT !.current = buf_append(p.current, data)] ELSE p

\* copilot importer, ss_start.
copilot_ss_start(p, name) ==
  IF name = "si" THEN [p EXCEPT !.in_si = TRUE, !.current = <<>>]
  ELSE IF name = "t" /\ p.in_si THEN [p EXCEPT !.in_t = TRUE]
  ELSE p

\* copilot importer, ss_end with sstrings_add.
copilot_ss_end(p, name) ==
  IF name = "si"
  THEN [p EXCEPT !.in_si = FALSE,
                 !.strings = Append(p.strings,
                                    IF p.current # NULL THEN p.current ELSE <<>>)]
  ELSE IF name = "t" THEN [p EXCEPT !.in_t = FALSE]
  ELSE p

\* copilot importer, ss_char.
copilot_ss_char(p, data) ==
  IF p.in_si /\ p.in_t THEN [p EXCEPT !.current = buf_append(p.current, data)] ELSE p

SsOff ==
  /\ ss_pc = "off" /\ ss_impl = "none" /\ ss_open = <<>>
  /\ ss_p = [strings |-> <<>>, in_t |-> FALSE, in_si |-> FALSE, current |-> NULL]
  /\ ss_doc = <<>> /\ ss_cur = <<>> /\ ss_runs = 0 /\ ss_chunks = 0

\* ss_init / SharedStrings ss = {0} / sstrings_init with sb_init.
SsInit ==
  /\ ss_pc = "parse"
  /\ ss_impl \in {"opus", "gemini", "copilot"}
  /\ ss_open = <<>>
  /\ ss_p = [strings |-> <<>>, in_t |-> FALSE, in_si |-> FALSE,
             current |-> IF ss_impl = "copilot" THEN <<>> ELSE NULL]
  /\ ss_doc = <<>> /\ ss_cur = <<>> /\ ss_runs = 0 /\ ss_chunks = 0

\* expat reads a start tag of the document.
SsReadStart(name) ==
  /\ ss_pc = "parse"
  /\ SsMayStart(ss_open, name)
  /\ name = "si" => Len(ss_doc) < MaxSi
  /\ name = "t" => ss_runs < MaxRuns
  /\ ss_open' = Append(ss_open, name)
  /\ ss_cur' = IF name = "si" THEN <<>> ELSE ss_cur
  /\ ss_runs' = IF name = "si" THEN 0 ELSE IF name = "t" THEN ss_runs + 1 ELSE ss_runs
  /\ ss_chunks' = 0
  /\ UNCHANGED <<ss_pc, ss_impl, ss_doc>>

\* expat reads the end tag of the innermost open element.
SsReadEnd(name) ==
  /\ ss_pc = "parse"
  /\ ss_open # <<>> /\ name = ss_open[Len(ss_open)]
  /\ ss_open' = SubSeq(ss_open, 1, Len(ss_open) - 1)
  /\ ss_doc' = IF name = "si" THEN Append(ss_doc, ss_cur) ELSE ss_doc
  /\ ss_chunks' = 0
  /\ UNCHANGED <<ss_pc, ss_impl, ss_cur, ss_runs>>

\* expat reads character data inside the innermost open element.
SsReadChars(data) ==
  /\ ss_pc = "parse"
  /\ ss_open # <<>>
  /\ ss_chunks < MaxChunks
  /\ ss_chunks' = ss_chunks + 1
  /\ ss_cur' = IF ss_open[Len(ss_open)] = "t" THEN ss_cur \o data ELSE ss_cur
  /\ UNCHANGED <<ss_pc, ss_impl, ss_open, ss_doc, ss_runs>>

opus_ss_start_element ==
  /\ ss_impl = "opus"
  /\ \E name \in SsElements : SsReadStart(name) /\ ss_p' = opus_ss_start(ss_p, name)
  /\ UNCHANGED notSs

opus_ss_end_element ==
  /\ ss_impl = "opus"
  /\ \E name \in SsElements : SsReadEnd(name) /\ ss_p' = opus_ss_end(ss_p, name)
  /\ UNCHANGED notSs

opus_ss_char_data ==
  /\ ss_impl = "opus"
  /\ \E data \in SsChunks : SsReadChars(data) /\ ss_p' = opus_ss_char(ss_p, data)
  /\ UNCHANGED notSs

gemini_shared_strings_start ==
  /\ ss_impl = "gemini"
  /\ \E name \in SsElements : SsReadStart(name) /\ ss_p' = gemini_ss_start(ss_p, name)
  /\ UNCHANGED notSs

gemini_shared_strings_end ==
  /\ ss_impl = "gemini"
  /\ \E name \in SsElements : SsReadEnd(name) /\ ss_p' = gemini_ss_end(ss_p, name)
  /\ UNCHANGED notSs

gemini_shared_strings_char ==
  /\ ss_impl = "gemini"
  /\ \E data \in SsChunks : SsReadChars(data) /\ ss_p' = gemini_ss_char(ss_p, data)
  /\ UNCHANGED notSs

copilot_ss_start_element ==
  /\ ss_impl = "copilot"
  /\ \E name \in SsElements : SsReadStart(name) /\ ss_p' = copilot_ss_start(ss_p, name)
  /\ UNCHANGED notSs

copilot_ss_end_element ==
  /\ ss_impl = "copilot"
  /\ \E name \in SsElements : SsReadEnd(name) /\ ss_p' = copilot_ss_end(ss_p, name)
  /\ UNCHANGED notSs

copilot_ss_char_data ==
  /\ ss_impl = "copilot"
  /\ \E data \in SsChunks : SsReadChars(data) /\ ss_p' = copilot_ss_char(ss_p, data)
  /\ UNCHANGED notSs

SsNext ==
  \/ opus_ss_start_element \/ opus_ss_end_element \/ opus_ss_char_data
  \/ gemini_shared_strings_start \/ gemini_shared_strings_end
  \/ gemini_shared_strings_char
  \/ copilot_ss_start_element \/ copilot_ss_end_element \/ copilot_ss_char_data

\* The text a shared-string index resolves to; an entry that holds no buffer
\* reads as "".
SsResolve(pool, k) == IF pool[k] = NULL THEN <<>> ELSE pool[k]

(* C6: parsing xl/sharedStrings.xml produces exactly one pool entry per si *)
(* element, in document order, and entry i is the concatenation of the     *)
(* character data of all t elements nested in the i-th si.  Stated between *)
(* string items: with k items closed the pool holds k entries and entry i  *)
(* resolves to the joined text of item i.                                  *)
Cex_C6_OneEntryPerSi ==
  (ss_pc = "parse" /\ ss_open = <<>>) =>
    /\ Len(ss_p.strings) = Len(ss_doc)
    /\ \A i \in 1..Len(ss_doc) : SsResolve(ss_p.strings, i) = ss_doc[i]

(***************************************************************************)
(* Importing one worksheet (the three importers)                           *)
(***************************************************************************)

\* Highest column and highest row number a worksheet of the model declares.
MaxCol == 4
MaxRow == 4

Digits == <<"0", "1", "2", "3", "4", "5", "6", "7", "8", "9">>

\* ASCII codes of a text, as far as atoi tells characters apart: the digits,
\* and one letter for everything else.
codes(s) ==
  [i \in 1..Len(s) |->
     IF \E d \in 1..10 : Digits[d] = s[i]
     THEN Ch0 + (CHOOSE d \in 1..10 : Digits[d] = s[i]) - 1
     ELSE Cha]

\* Decimal digits of n: what the producer of the document writes.
RECURSIVE itoa(_)
itoa(n) == IF n < 10 THEN <<Digits[n + 1]>> ELSE Append(itoa(n \div 10), Digits[(n % 10) + 1])

\* Cell types of the t attribute.
TypeS == <<"s">>
TypeStr == <<"s", "t", "r">>
TypeInlineStr == <<"i", "n", "l", "i", "n", "e", "S", "t", "r">>
TypeB == <<"b">>

\* The cell reference of column col (1-based) in row r, e.g. "D2".
CellRef(col, r) == col_to_letter(col - 1) \o codes(itoa(r))

\* Shared strings of a workbook whose header row is h1, h2, ...: one entry
\* per column and the text x.
PlainPool == [i \in 1..(MaxCol + 1) |-> IF i <= MaxCol THEN <<"h">> \o itoa(i) ELSE <<"x">>]

\* Shared strings of a workbook whose header texts repeat or differ in case
\* only.
HeaderPool == <<(<<"a">>), (<<"A">>), (<<"b">>)>>

\* Kinds of document: "cells" has the header h1.. in row 1 and any cells in
\* row 2; "header" has any header cells in row 1 and at most the cell A2 in
\* row 2; "rows" has the header h1.. in row 1 and any later rows, each
\* declaring its leading columns.
WsProfiles == {"cells", "header", "rows"}

WsPool(prof) == IF prof = "header" THEN HeaderPool ELSE PlainPool

\* A shared-string index no pool of the model reaches.
BadIndex == <<"9", "9">>

\* opus importer, ws_get_row: the rows with empty rows added up to row_num.
RECURSIVE ws_get_row(_, _)
ws_get_row(rows, row_num) ==
  IF Len(rows) < row_num THEN ws_get_row(Append(rows, <<>>), row_num) ELSE rows

\* A grid builder that pads with empty strings instead of null cells.
ws_pad_row_empty(cells, colno) ==
  [i \in 1..Max(Len(cells), colno) |-> IF i <= Len(cells) THEN cells[i] ELSE <<>>]

\* The padding loop of ws_set_cell: explicit null cells up to colno.
RECURSIVE ws_pad_row(_, _)
ws_pad_row(cells, colno) ==
  IF Len(cells) < colno THEN ws_pad_row(Append(cells, NULL), colno) ELSE cells

\* opus importer, ws_set_cell: a cell is its value, NULL when is_null.
ws_set_cell(p, row_num, colno, value) ==
  LET rows == ws_get_row(p.rows, row_num)
      cells == ws_pad_row(rows[row_num], colno)
  IN [p EXCEPT !.rows = [rows EXCEPT ![row_num] = [cells EXCEPT ![colno] = value]],
               !.max_col = Max(p.max_col, colno)]

\* Resetting an accumulation buffer: text_len = 0 and, when allocated, "".
text_reset(text) == IF text # NULL THEN <<>> ELSE NULL

\* opus importer, parse_worksheet: ws_init and wsp_init.
opus_wsp_init ==
  [rows |-> <<>>, max_col |-> 0, cur_row |-> 0, cur_col |-> 0, cur_type |-> "n",
   in_v |-> FALSE, in_t |-> FALSE, in_is |-> FALSE, text |-> NULL]

\* opus importer, ws_start_element; atts holds the attributes written, of
\* which the handlers read r and t.
opus_ws_start(p, name, atts) ==
  IF name = "c"
  THEN LET ref == IF "r" \in DOMAIN atts THEN parse_cell_ref(atts.r) ELSE [col |-> 0, row |-> 0]
           t == IF "t" \in DOMAIN atts THEN atts.t ELSE <<>>
           type == IF t = TypeS THEN "s"
                   ELSE IF t = TypeInlineStr THEN "i"
                   ELSE IF t = TypeB THEN "b"
                   ELSE IF t = TypeStr THEN "f"
                   ELSE "n"
       IN [p EXCEPT !.cur_type = type, !.cur_row = ref.row, !.cur_col = ref.col,
                    !.text = text_reset(p.text)]
  ELSE IF name = "v" THEN [p EXCEPT !.in_v = TRUE, !.text = text_reset(p.text)]
  ELSE IF name = "is" THEN [p EXCEPT !.in_is = TRUE]
  ELSE IF name = "t" /\ p.in_is THEN [p EXCEPT !.in_t = TRUE, !.text = text_reset(p.text)]
  ELSE p

\* The value ws_end_element stores for the cell that ends.
opus_cell_value(p, pool) ==
  IF p.cur_type = "s" /\ p.text # NULL
  THEN LET idx == atoi(codes(p.text))
       IN IF idx >= 0 /\ idx < Len(pool) THEN pool[idx + 1] ELSE NULL
  ELSE IF p.cur_type = "i" THEN p.text
  ELSE IF p.text # NULL /\ Len(p.text) > 0 THEN p.text
  ELSE NULL

\* opus importer, ws_end_element.
opus_ws_end(p, name, pool) ==
  IF name = "c"
  THEN IF p.cur_row > 0 /\ p.cur_col > 0
       THEN ws_set_cell(p, p.cur_row, p.cur_col, opus_cell_value(p, pool))
       ELSE p
  ELSE IF name = "v" THEN [p EXCEPT !.in_v = FALSE]
  ELSE IF name = "is" THEN [p EXCEPT !.in_is = FALSE]
  ELSE IF name = "t" /\ p.in_is THEN [p EXCEPT !.in_t = FALSE]
  ELSE p

\* opus importer, ws_char_data with wsp_append_text.
opus_ws_char(p, data) ==
  IF p.in_v \/ p.in_t THEN [p EXCEPT !.text = buf_append(p.text, data)] ELSE p

UpperLetters ==
  <<"A", "B", "C", "D", "E", "F", "G", "H", "I", "J", "K", "L", "M",
    "N", "O", "P", "Q", "R", "S", "T", "U", "V", "W", "X", "Y", "Z">>
LowerLetters ==
  <<"a", "b", "c", "d", "e", "f", "g", "h", "i", "j", "k", "l", "m",
    "n", "o", "p", "q", "r", "s", "t", "u", "v", "w", "x", "y", "z">>

IsUpperCh(c) == \E i \in 1..26 : UpperLetters[i] = c
IsLowerCh(c) == \E i \in 1..26 : LowerLetters[i] = c
IsDigitCh(c) == \E i \in 1..10 : Digits[i] = c

\* SQLite compares identifiers without regard to ASCII case.
sql_lower(s) ==
  [i \in 1..Len(s) |->
     IF IsUpperCh(s[i]) THEN LowerLetters[CHOOSE k \in 1..26 : UpperLetters[k] = s[i]]
     ELSE s[i]]

Quote == "\""

\* Doubling of the quotes of an identifier.
RECURSIVE double_quotes(_)
double_quotes(s) ==
  IF s = <<>> THEN <<>>
  ELSE (IF Head(s) = Quote THEN <<Quote, Quote>> ELSE <<Head(s)>>) \o double_quotes(Tail(s))

\* opus importer, escape_identifier.
escape_identifier(name) ==
  IF name = NULL \/ name = <<>> THEN <<Quote, "u", "n", "n", "a", "m", "e", "d", Quote>>
  ELSE <<Quote>> \o double_quotes(name) \o <<Quote>>

\* copilot importer, quote_identifier.
quote_identifier(s) ==
  <<Quote>> \o double_quotes(IF s = NULL THEN <<>> ELSE s) \o <<Quote>>

\* gemini importer, sheet_end: the header text between two quotes.
gemini_quote(s) == <<Quote>> \o s \o <<Quote>>

\* SQLite reading the inside of a quoted identifier from position i on: the
\* name, or NULL when a quote stands alone before the end.
RECURSIVE sql_unquote(_, _, _)
sql_unquote(q, i, acc) ==
  IF i > Len(q) THEN NULL
  ELSE IF q[i] # Quote THEN sql_unquote(q, i + 1, Append(acc, q[i]))
  ELSE IF i = Len(q) THEN acc
  ELSE IF q[i + 1] = Quote /\ i + 1 < Len(q) THEN sql_unquote(q, i + 2, Append(acc, Quote))
  ELSE NULL

\* SQLite reading a quoted identifier: the name it denotes, NULL on a syntax
\* error.
sql_ident(q) ==
  IF Len(q) < 2 \/ q[1] # Quote THEN NULL ELSE sql_unquote(q, 2, <<>>)

\* The database as far as one sheet's table goes.
NoTable == [created |-> FALSE, cols |-> <<>>, rows |-> <<>>]

\* SQLite executing CREATE TABLE [IF NOT EXISTS] t (<quoted columns>): the new
\* database and whether the statement succeeded.  It fails on an empty column
\* list, on a malformed identifier and on two columns of the same name.
sql_create_table(db, quoted, if_not_exists) ==
  LET names == [i \in 1..Len(quoted) |-> sql_ident(quoted[i])]
  IN IF Len(quoted) = 0 \/ \E i \in 1..Len(names) : names[i] = NULL
     THEN [db |-> db, ok |-> FALSE]
     ELSE IF db.created THEN [db |-> db, ok |-> if_not_exists]
     ELSE IF \E i, j \in 1..Len(names) : i < j /\ sql_lower(names[i]) = sql_lower(names[j])
     THEN [db |-> db, ok |-> FALSE]
     ELSE [db |-> [created |-> TRUE, cols |-> names, rows |-> <<>>], ok |-> TRUE]

\* SQLite executing INSERT INTO t VALUES (...) with one value per listed
\* position; src tells which row of the sheet the values come from.
sql_insert(db, src, vals) ==
  IF db.created /\ Len(vals) = Len(db.cols)
  THEN [db |-> [db EXCEPT !.rows = Append(db.rows, [src |-> src, vals |-> vals])], ok |-> TRUE]
  ELSE [db |-> db, ok |-> FALSE]

ColN(col) == <<"c", "o", "l">> \o itoa(col)

\* A column list that names every column by its position.
opus_column_list_positional(p) ==
  [col \in 1..p.max_col |-> <<Quote>> \o ColN(col) \o <<Quote>>]

\* opus importer, create_table_from_worksheet: the column list of the CREATE
\* TABLE statement.
opus_column_list(p) ==
  LET first_row == p.rows[1]
  IN [col \in 1..p.max_col |->
        LET col_name == IF col <= Len(first_row) THEN first_row[col] ELSE NULL
        IN IF col_name # NULL /\ col_name # <<>>
           THEN escape_identifier(col_name)
           ELSE <<Quote>> \o ColN(col) \o <<Quote>>]

\* The insert loop of create_table_from_worksheet from row_idx (1-based) on.
RECURSIVE opus_insert_rows(_, _, _)
opus_insert_rows(db, p, row_idx) ==
  IF row_idx > Len(p.rows) THEN [db |-> db, ok |-> TRUE]
  ELSE LET row == p.rows[row_idx]
       IN IF Len(row) = 0 THEN opus_insert_rows(db, p, row_idx + 1)
          ELSE LET vals == [col \in 1..p.max_col |->
                              IF col <= Len(row) THEN row[col] ELSE NULL]
                   r == sql_insert(db, row_idx, vals)
               IN IF r.ok THEN opus_insert_rows(r.db, p, row_idx + 1)
                  ELSE [db |-> r.db, ok |-> FALSE]

\* opus importer, create_table_from_worksheet: the database and the result
\* code, "ok" standing for SQLITE_OK.
opus_create_table(db, p) ==
  IF Len(p.rows) = 0 \/ p.max_col = 0 THEN [db |-> db, rc |-> "ok"]
  ELSE LET c == sql_create_table(db, opus_column_list(p), TRUE)
       IN IF ~c.ok THEN [db |-> c.db, rc |-> "error"]
          ELSE LET r == opus_insert_rows(c.db, p, 2)
               IN [db |-> r.db, rc |-> IF r.ok THEN "ok" ELSE "error"]

\* copilot importer, colname_to_index: 0-based, -1 for no letters.
RECURSIVE colname_loop(_, _, _)
colname_loop(col, i, idx) ==
  IF i > Len(col) THEN idx
  ELSE IF col[i] >= ChA /\ col[i] <= ChZ THEN colname_loop(col, i + 1, idx * 26 + (col[i] - ChA + 1))
  ELSE IF col[i] >= Cha /\ col[i] <= Chz THEN colname_loop(col, i + 1, idx * 26 + (col[i] - Cha + 1))
  ELSE idx

colname_to_index(col) == colname_loop(col, 1, 0) - 1

\* sizeof(colletters) in sheet_end.
CollettersSize == 32

\* The letters sheet_end copies from the cell reference.
RECURSIVE copilot_colletters(_, _)
copilot_colletters(ref, i) ==
  IF i <= Len(ref) /\ ~isdigit(ref[i]) /\ i - 1 < CollettersSize - 1
  THEN <<ref[i]>> \o copilot_colletters(ref, i + 1)
  ELSE <<>>

\* First capacity of the row buffer.
RowcapFirst == 16

RECURSIVE rowcap_grow(_, _)
rowcap_grow(newcap, cols) == IF newcap < cols THEN rowcap_grow(newcap * 2, cols) ELSE newcap

\* copilot importer, ensure_rowcap: new slots hold NULL.
ensure_rowcap(rowbuf, cols) ==
  IF cols <= Len(rowbuf) THEN rowbuf
  ELSE LET newcap == rowcap_grow(IF Len(rowbuf) # 0 THEN Len(rowbuf) ELSE RowcapFirst, cols)
       IN [i \in 1..newcap |-> IF i <= Len(rowbuf) THEN rowbuf[i] ELSE NULL]

rowbuf_clear(rowbuf) == [i \in 1..Len(rowbuf) |-> NULL]

\* copilot importer, import_xlsx_to_db: the parser context before XML_Parse,
\* with the rows sheet_rows_emit collects.
copilot_sp_init ==
  [in_v |-> FALSE, in_t |-> FALSE, in_is |-> FALSE, in_c |-> FALSE,
   cur_cell_ref |-> <<>>, cur_cell_type |-> <<>>, cur_text |-> <<>>,
   current_row |-> 0, rowbuf |-> <<>>, maxcol |-> 0, rows |-> <<>>]

\* copilot importer, sheet_start.
copilot_sheet_start(p, name, atts) ==
  IF name = "row"
  THEN [p EXCEPT !.current_row = IF "r" \in DOMAIN atts THEN atoi(atts.r) ELSE 0,
                 !.rowbuf = rowbuf_clear(p.rowbuf),
                 !.maxcol = 0]
  ELSE IF name = "c"
  THEN [p EXCEPT !.in_c = TRUE,
                 !.cur_cell_ref = IF "r" \in DOMAIN atts THEN atts.r ELSE <<>>,
                 !.cur_cell_type = IF "t" \in DOMAIN atts THEN atts.t ELSE <<>>,
                 !.cur_text = <<>>]
  ELSE IF name = "v" THEN [p EXCEPT !.in_v = TRUE]
  ELSE IF name = "is" THEN [p EXCEPT !.in_is = TRUE]
  ELSE IF name = "t" THEN [p EXCEPT !.in_t = TRUE]
  ELSE p

\* The value sheet_end stores for the cell that ends.
copilot_cell_value(p, pool) ==
  IF p.cur_cell_type # <<>> /\ p.cur_cell_type[1] = "s" /\ Len(p.cur_text) > 0
  THEN LET idx == atoi(codes(p.cur_text))
       IN IF idx >= 0 /\ idx < Len(pool) THEN pool[idx + 1] ELSE <<>>
  ELSE p.cur_text

\* copilot importer, sheet_end with sheet_rows_emit.
copilot_sheet_end(p, name, pool) ==
  IF name = "c"
  THEN LET idx == colname_to_index(copilot_colletters(p.cur_cell_ref, 1))
           colidx == IF idx < 0 THEN 0 ELSE idx
           rowbuf == ensure_rowcap(p.rowbuf, colidx + 1)
       IN [p EXCEPT !.rowbuf = [rowbuf EXCEPT ![colidx + 1] = copilot_cell_value(p, pool)],
                    !.maxcol = Max(p.maxcol, colidx + 1),
                    !.in_c = FALSE, !.in_v = FALSE, !.in_is = FALSE,
                    !.cur_text = <<>>]
  ELSE IF name = "row"
  THEN [p EXCEPT !.rows = Append(p.rows, [rownum |-> p.current_row,
                                          cols |-> SubSeq(p.rowbuf, 1, p.maxcol)]),
                 !.rowbuf = rowbuf_clear(p.rowbuf),
                 !.maxcol = 0]
  ELSE IF name = "v" THEN [p EXCEPT !.in_v = FALSE]
  ELSE IF name = "t" THEN [p EXCEPT !.in_t = FALSE]
  ELSE IF name = "is" THEN [p EXCEPT !.in_is = FALSE]
  ELSE p

\* copilot importer, sheet_char.
copilot_sheet_char(p, data) ==
  IF p.in_v \/ p.in_t THEN [p EXCEPT !.cur_text = p.cur_text \o data] ELSE p

\* The smallest row number among the emitted rows.
RECURSIVE min_rownum_from(_, _, _)
min_rownum_from(rows, r, m) ==
  IF r > Len(rows) THEN m
  ELSE min_rownum_from(rows, r + 1, IF rows[r].rownum < m THEN rows[r].rownum ELSE m)

\* The while(1) loop that makes a column name unique among colnames.
RECURSIVE unique_name(_, _, _)
unique_name(colnames, candidate, suffix) ==
  IF \E j \in 1..Len(colnames) : colnames[j] = candidate
  THEN unique_name(colnames, candidate \o <<"_">> \o itoa(suffix), suffix + 1)
  ELSE candidate

\* part_000, sanitize_identifier, the character loop: out after s[i..].
RECURSIVE sanitize_loop(_, _, _)
sanitize_loop(s, i, out) ==
  IF i > Len(s) THEN out
  ELSE IF IsUpperCh(s[i]) \/ IsLowerCh(s[i]) \/ IsDigitCh(s[i]) \/ s[i] = "_"
  THEN sanitize_loop(s, i + 1, Append(out, s[i]))
  ELSE IF out = <<>> \/ out[Len(out)] # "_"
  THEN sanitize_loop(s, i + 1, Append(out, "_"))
  ELSE sanitize_loop(s, i + 1, out)

\* part_000, sanitize_identifier.
sanitize_identifier(s) ==
  IF s = NULL THEN <<"c", "o", "l">>
  ELSE LET out0 == sanitize_loop(s, 1, <<>>)
           out == IF out0 = <<>> THEN <<"_">> ELSE out0
       IN IF IsDigitCh(out[1]) THEN <<"c", "_">> \o out ELSE out

\* import_xlsx_to_db: the column names from the header row; part_000
\* sanitizes the raw text first.
RECURSIVE copilot_colnames(_, _, _, _)
copilot_colnames(header, c, colnames, sanitize) ==
  IF c > Len(header) THEN colnames
  ELSE LET raw == IF header[c] # NULL THEN header[c] ELSE <<>>
           first == IF sanitize THEN sanitize_identifier(raw) ELSE raw
       IN copilot_colnames(header, c + 1,
                           Append(colnames, unique_name(colnames, first, 1)), sanitize)

\* The insert loop of import_xlsx_to_db from row r on; errors are ignored.
RECURSIVE copilot_insert_rows(_, _, _, _, _)
copilot_insert_rows(db, rows, r, min_rownum, ncols) ==
  IF r > Len(rows) THEN db
  ELSE IF rows[r].rownum = min_rownum THEN copilot_insert_rows(db, rows, r + 1, min_rownum, ncols)
  ELSE LET vals == [c \in 1..ncols |->
                      IF c <= Len(rows[r].cols) THEN rows[r].cols[c] ELSE NULL]
       IN copilot_insert_rows(sql_insert(db, rows[r].rownum, vals).db, rows, r + 1,
                              min_rownum, ncols)

RowidColumn == <<"r", "o", "w", "i", "d">>

\* copilot importer, import_xlsx_to_db, from the end of XML_Parse to the end
\* of the sheet's loop body: the database and whether tables_created counts
\* the sheet.
copilot_create_table(db, rows, sanitize) ==
  IF Len(rows) = 0
  THEN LET c == sql_create_table(db, <<quote_identifier(RowidColumn)>>, TRUE)
       IN [db |-> c.db, counted |-> c.ok]
  ELSE LET min_rownum == min_rownum_from(rows, 2, rows[1].rownum)
           header_idx == CHOOSE r \in 1..Len(rows) :
                           /\ rows[r].rownum = min_rownum
                           /\ \A q \in 1..(r - 1) : rows[q].rownum # min_rownum
           colnames == copilot_colnames(rows[header_idx].cols, 1, <<>>, sanitize)
           quoted == [c \in 1..Len(colnames) |->
                        IF sanitize THEN <<Quote>> \o colnames[c] \o <<Quote>>
                        ELSE quote_identifier(colnames[c])]
           c == sql_create_table(db, quoted, TRUE)
       IN IF ~c.ok THEN [db |-> c.db, counted |-> FALSE]
          ELSE [db |-> copilot_insert_rows(c.db, rows, 1, min_rownum, Len(colnames)),
                counted |-> TRUE]

\* gemini importer, col_to_int: 1-based, 0 for no letters.
RECURSIVE col_to_int_loop(_, _, _)
col_to_int_loop(col, i, res) ==
  IF i <= Len(col) /\ isalpha(col[i])
  THEN col_to_int_loop(col, i + 1, res * 26 + (toupper(col[i]) - ChA + 1))
  ELSE res

col_to_int(col) == col_to_int_loop(col, 1, 0)

\* sizeof(c_part) in extract_col_row.
CPartSize == 16

RECURSIVE alpha_prefix_len(_, _)
alpha_prefix_len(ref, i) ==
  IF i <= Len(ref) /\ isalpha(ref[i]) THEN alpha_prefix_len(ref, i + 1) ELSE i - 1

\* gemini importer, extract_col_row.
extract_col_row(ref) ==
  LET n == alpha_prefix_len(ref, 1)
      len == IF n >= CPartSize THEN CPartSize - 1 ELSE n
  IN [col |-> col_to_int(SubSeq(ref, 1, len)), row |-> atoi(SubSeq(ref, n + 1, Len(ref)))]

\* Pieces of the INSERT statement in sql_buf: the opening "VALUES (", the
\* text "NULL", the text ", ", a string literal, the closing ");".
TokOpen == <<"(">>
TokNull == <<"NULL">>
TokComma == <<",">>
TokClose == <<")">>
TokLiteral(text) == <<"'", text>>

\* sqlite3_mprintf("%Q", s): a string literal that denotes s.
mprintf_Q(s) == TokLiteral(s)

\* SQLite reading the value list of an INSERT from token i on: the values,
\* or NULL on a syntax error.  want tells whether a value or a separator
\* comes next.
RECURSIVE sql_values(_, _, _, _)
sql_values(toks, i, want, acc) ==
  IF i > Len(toks) THEN NULL
  ELSE IF want = "value"
  THEN IF toks[i][1] = "NULL" THEN sql_values(toks, i + 1, "sep", Append(acc, NULL))
       ELSE IF toks[i][1] = "'" THEN sql_values(toks, i + 1, "sep", Append(acc, toks[i][2]))
       ELSE NULL
  ELSE IF toks[i][1] = "," THEN sql_values(toks, i + 1, "value", acc)
  ELSE IF toks[i][1] = ")" /\ i = Len(toks) THEN acc
  ELSE NULL

\* SQLite executing the INSERT statement of sql_buf.
sql_exec_insert(db, src, toks) ==
  IF Len(toks) < 2 \/ toks[1][1] # "(" THEN [db |-> db, ok |-> FALSE]
  ELSE LET vals == sql_values(toks, 2, "value", <<>>)
       IN IF vals = NULL THEN [db |-> db, ok |-> FALSE] ELSE sql_insert(db, src, vals)

\* gemini importer, xlsx_import_func: SheetCtx ctx = {0}.
gemini_ctx_init ==
  [current_row |-> 0, current_col |-> 0, in_row |-> FALSE, in_c |-> FALSE,
   in_v |-> FALSE, in_t |-> FALSE, cell_type |-> <<>>, cell_val |-> NULL,
   sql_buf |-> <<>>, header_row_processed |-> FALSE, header_cols |-> <<>>,
   num_cols |-> 0]

\* The "NULL, " texts sheet_start appends for the columns skipped before
\* column c, from gap k on.
RECURSIVE gemini_gaps(_, _, _, _)
gemini_gaps(p, gaps, k, buf) ==
  IF k >= gaps THEN buf
  ELSE gemini_gaps(p, gaps, k + 1,
                   IF p.current_col + k + 1 <= p.num_cols
                   THEN buf \o <<TokNull, TokComma>>
                   ELSE buf)

\* gemini importer, sheet_start.
gemini_sheet_start(p, name, atts) ==
  IF name = "row"
  THEN [p EXCEPT !.in_row = TRUE,
                 !.current_row = IF "r" \in DOMAIN atts THEN atoi(atts.r) ELSE p.current_row,
                 !.current_col = 0,
                 !.sql_buf = IF p.header_row_processed THEN <<TokOpen>> ELSE p.sql_buf]
  ELSE IF name = "c"
  THEN LET c == IF "r" \in DOMAIN atts THEN extract_col_row(atts.r).col ELSE p.current_col
           gaps == IF p.current_col = 0 THEN c - 1 ELSE c - p.current_col - 1
       IN [p EXCEPT !.in_c = TRUE,
                    !.cell_type = IF "t" \in DOMAIN atts THEN atts.t ELSE <<>>,
                    !.sql_buf = IF "r" \in DOMAIN atts /\ p.header_row_processed
                                THEN gemini_gaps(p, gaps, 0, p.sql_buf)
                                ELSE p.sql_buf,
                    !.current_col = c,
                    !.cell_val = NULL]
  ELSE IF name = "v" THEN [p EXCEPT !.in_v = TRUE]
  ELSE IF name = "t" /\ p.cell_type = TypeInlineStr THEN [p EXCEPT !.in_t = TRUE]
  ELSE p

\* gemini importer, sheet_char.
gemini_sheet_char(p, data) ==
  IF p.in_v \/ p.in_t THEN [p EXCEPT !.cell_val = buf_append(p.cell_val, data)] ELSE p

\* The text sheet_end takes for the cell that ends.
gemini_final_val(p, pool) ==
  LET val == p.cell_val
      found == IF val = NULL THEN NULL
               ELSE IF p.cell_type = TypeS
               THEN LET idx == atoi(codes(val))
                    IN IF idx >= 0 /\ idx < Len(pool) THEN pool[idx + 1] ELSE NULL
               ELSE val
  IN IF found = NULL THEN <<>> ELSE found

\* The ", NULL" texts sheet_end appends at the end of a row, from column k on.
RECURSIVE gemini_trailing(_, _, _)
gemini_trailing(k, num_cols, buf) ==
  IF k < num_cols THEN gemini_trailing(k + 1, num_cols, buf \o <<TokComma, TokNull>>) ELSE buf

\* gemini importer, sheet_end: the context and the database; the results of
\* sqlite3_exec are not looked at.
gemini_sheet_end(p, db, name, pool) ==
  IF name = "v" THEN [p |-> [p EXCEPT !.in_v = FALSE], db |-> db]
  ELSE IF name = "t" THEN [p |-> [p EXCEPT !.in_t = FALSE], db |-> db]
  ELSE IF name = "c"
  THEN LET final_val == gemini_final_val(p, pool)
       IN IF ~p.header_row_processed
          THEN [p |-> [p EXCEPT !.in_c = FALSE,
                                !.header_cols = Append(p.header_cols, gemini_quote(final_val)),
                                !.num_cols = p.num_cols + 1,
                                !.cell_val = NULL],
                db |-> db]
          ELSE LET buf == IF p.sql_buf # <<>> /\ p.sql_buf[Len(p.sql_buf)] # TokOpen
                          THEN Append(p.sql_buf, TokComma)
                          ELSE p.sql_buf
               IN [p |-> [p EXCEPT !.in_c = FALSE,
                                   !.sql_buf = Append(buf, mprintf_Q(final_val)),
                                   !.cell_val = NULL],
                   db |-> db]
  ELSE IF name = "row"
  THEN IF ~p.header_row_processed
       THEN [p |-> [p EXCEPT !.in_row = FALSE, !.header_row_processed = TRUE],
             db |-> sql_create_table(db, p.header_cols, FALSE).db]
       ELSE LET buf == Append(gemini_trailing(p.current_col, p.num_cols, p.sql_buf), TokClose)
            IN [p |-> [p EXCEPT !.in_row = FALSE, !.sql_buf = <<>>],
                db |-> sql_exec_insert(db, p.current_row, buf).db]
  ELSE [p |-> p, db |-> db]

\* The row and the cell the document is in (0 before the first).
WsLastRow == IF ws_src = <<>> THEN 0 ELSE ws_src[Len(ws_src)].r
WsCells == IF ws_src = <<>> THEN <<>> ELSE ws_src[Len(ws_src)].cells
WsLastCol == IF WsCells = <<>> THEN 0 ELSE WsCells[Len(WsCells)].col
WsCell == WsCells[Len(WsCells)]

\* The document is in the header row h1, h2, ... of a "cells" or "rows" sheet.
WsPlainHeader == ws_prof \in {"cells", "rows"} /\ WsLastRow = 1

\* The start tags a worksheet may hold: <row r=..>, <c r=.. [t=..]>, <v>.
WsStartTags ==
  {[name |-> "row", row |-> r, col |-> 0, t |-> NULL] : r \in 1..MaxRow}
    \cup {[name |-> "c", row |-> WsLastRow, col |-> c, t |-> t] :
            c \in 1..MaxCol, t \in {NULL, TypeS}}
    \cup {[name |-> "v", row |-> 0, col |-> 0, t |-> NULL]}

\* The attributes expat passes for a start tag.
WsAtts(tag) ==
  IF tag.name = "row" THEN [r |-> codes(itoa(tag.row))]
  ELSE IF tag.name = "c"
  THEN IF tag.t = NULL THEN [r |-> CellRef(tag.col, tag.row)]
       ELSE [r |-> CellRef(tag.col, tag.row), t |-> tag.t]
  ELSE <<>>

\* Which start tag may come next: rows in ascending order, cells of a row in
\* ascending order, one <v> per cell and always one in a cell of type s; the
\* kind of document limits the rest.
WsMayStart(tag) ==
  CASE tag.name = "row" ->
         /\ ws_open = <<>>
         /\ tag.row > WsLastRow
         /\ IF ws_prof = "rows" THEN ws_src = <<>> => tag.row = 1
            ELSE tag.row = WsLastRow + 1 /\ tag.row <= 2
    [] tag.name = "c" ->
         /\ ws_open = <<"row">>
         /\ tag.col > WsLastCol
         /\ IF WsPlainHeader THEN tag.col = WsLastCol + 1 /\ tag.t = TypeS
            ELSE CASE ws_prof = "cells" -> TRUE
                   [] ws_prof = "header" -> WsLastRow > 1 => (tag.t = TypeS /\ tag.col = 1)
                   [] OTHER -> tag.t = TypeS /\ tag.col = WsLastCol + 1
    [] OTHER ->
         /\ ws_open = <<"row", "c">>
         /\ WsCell.v = NULL
         /\ ws_prof # "cells" => WsCell.t = TypeS

\* The character data a <v> may hold.
WsTexts ==
  IF WsPlainHeader THEN {itoa(WsLastCol - 1)}
  ELSE CASE ws_prof = "cells" ->
              IF WsCell.t = TypeS THEN {itoa(MaxCol), BadIndex} ELSE {<<"7">>}
         [] ws_prof = "header" ->
              IF WsLastRow = 1 THEN {itoa(k) : k \in 0..(Len(HeaderPool) - 1)}
              ELSE {itoa(Len(HeaderPool) - 1)}
         [] OTHER -> {itoa(MaxCol)}

\* expat reads a start tag of the worksheet.
WsReadStart(tag) ==
  /\ ws_pc = "parse"
  /\ WsMayStart(tag)
  /\ ws_open' = Append(ws_open, tag.name)
  /\ ws_src' =
       CASE tag.name = "row" -> Append(ws_src, [r |-> tag.row, cells |-> <<>>])
         [] tag.name = "c" ->
              [ws_src EXCEPT ![Len(ws_src)].cells =
                 Append(@, [col |-> tag.col, t |-> tag.t, v |-> NULL])]
         [] OTHER -> [ws_src EXCEPT ![Len(ws_src)].cells[Len(WsCells)].v = <<>>]

\* expat reads the end tag of the innermost open element.
WsReadEnd(name) ==
  /\ ws_pc = "parse"
  /\ ws_open # <<>> /\ name = ws_open[Len(ws_open)]
  /\ name = "v" => WsCell.v # <<>>
  /\ (name = "c" /\ WsCell.t = TypeS) => WsCell.v # NULL
  /\ (name = "row" /\ WsPlainHeader) => WsCells # <<>>
  /\ ws_open' = SubSeq(ws_open, 1, Len(ws_open) - 1)
  /\ UNCHANGED ws_src

\* expat reads the character data of a <v>, in one piece.
WsReadChars(data) ==
  /\ ws_pc = "parse"
  /\ ws_open = <<"row", "c", "v">>
  /\ WsCell.v = <<>>
  /\ data \in WsTexts
  /\ ws_src' = [ws_src EXCEPT ![Len(ws_src)].cells[Len(WsCells)].v = data]
  /\ UNCHANGED ws_open

WsElements == {"row", "c", "v"}
WsAllTexts == {itoa(k) : k \in 0..MaxCol} \cup {BadIndex, <<"7">>}

\* What a handler call leaves alone.
wsFixed == <<ws_pc, ws_impl, ws_prof, ws_rc, ws_count>>

opus_ws_start_element ==
  /\ ws_impl \in {"opus"}
  /\ \E tag \in WsStartTags :
       WsReadStart(tag) /\ ws_p' = opus_ws_start(ws_p, tag.name, WsAtts(tag))
  /\ UNCHANGED wsFixed /\ UNCHANGED ws_db
  /\ UNCHANGED notWs

opus_ws_end_element ==
  /\ ws_impl \in {"opus"}
  /\ \E name \in WsElements :
       WsReadEnd(name) /\ ws_p' = opus_ws_end(ws_p, name, WsPool(ws_prof))
  /\ UNCHANGED wsFixed /\ UNCHANGED ws_db
  /\ UNCHANGED notWs

opus_ws_char_data ==
  /\ ws_impl \in {"opus"}
  /\ \E data \in WsAllTexts : WsReadChars(data) /\ ws_p' = opus_ws_char(ws_p, data)
  /\ UNCHANGED wsFixed /\ UNCHANGED ws_db
  /\ UNCHANGED notWs

\* opus importer, xlsx_import_func: one pass of the sheet loop after
\* parse_worksheet.
opus_create_table_from_worksheet ==
  /\ ws_pc = "parse" /\ ws_impl = "opus" /\ ws_open = <<>>
  /\ LET r == opus_create_table(ws_db, ws_p)
     IN /\ ws_db' = r.db
        /\ ws_rc' = r.rc
        /\ ws_count' = IF r.rc = "ok" THEN ws_count + 1 ELSE ws_count
  /\ ws_pc' = "done"
  /\ UNCHANGED <<ws_impl, ws_prof, ws_open, ws_src, ws_p>>
  /\ UNCHANGED notWs

copilot_sheet_start_element ==
  /\ ws_impl \in {"copilot"}
  /\ \E tag \in WsStartTags :
       WsReadStart(tag) /\ ws_p' = copilot_sheet_start(ws_p, tag.name, WsAtts(tag))
  /\ UNCHANGED wsFixed /\ UNCHANGED ws_db
  /\ UNCHANGED notWs

copilot_sheet_end_element ==
  /\ ws_impl \in {"copilot"}
  /\ \E name \in WsElements :
       WsReadEnd(name) /\ ws_p' = copilot_sheet_end(ws_p, name, WsPool(ws_prof))
  /\ UNCHANGED wsFixed /\ UNCHANGED ws_db
  /\ UNCHANGED notWs

copilot_sheet_char_data ==
  /\ ws_impl \in {"copilot"}
  /\ \E data \in WsAllTexts : WsReadChars(data) /\ ws_p' = copilot_sheet_char(ws_p, data)
  /\ UNCHANGED wsFixed /\ UNCHANGED ws_db
  /\ UNCHANGED notWs

\* copilot importer (part_001), import_xlsx_to_db: one pass of the sheet loop
\* after XML_Parse.
import_xlsx_to_db ==
  /\ ws_pc = "parse" /\ ws_impl = "copilot" /\ ws_open = <<>>
  /\ LET r == copilot_create_table(ws_db, ws_p.rows, FALSE)
     IN /\ ws_db' = r.db
        /\ ws_count' = IF r.counted THEN ws_count + 1 ELSE ws_count
  /\ ws_rc' = "ok"
  /\ ws_pc' = "done"
  /\ UNCHANGED <<ws_impl, ws_prof, ws_open, ws_src, ws_p>>
  /\ UNCHANGED notWs

\* The older copilot importer (part_000), import_xlsx_to_db: its parser is
\* the one of part_001, so the two differ from here on.
import_xlsx_to_db_sanitizing ==
  /\ ws_pc = "parse" /\ ws_impl = "copilot" /\ ws_open = <<>>
  /\ LET r == copilot_create_table(ws_db, ws_p.rows, TRUE)
     IN /\ ws_db' = r.db
        /\ ws_count' = IF r.counted THEN ws_count + 1 ELSE ws_count
  /\ ws_rc' = "ok"
  /\ ws_pc' = "done"
  /\ ws_impl' = "part_000"
  /\ UNCHANGED <<ws_prof, ws_open, ws_src, ws_p>>
  /\ UNCHANGED notWs

gemini_sheet_start_element ==
  /\ ws_impl \in {"gemini"}
  /\ \E tag \in WsStartTags :
       WsReadStart(tag) /\ ws_p' = gemini_sheet_start(ws_p, tag.name, WsAtts(tag))
  /\ UNCHANGED wsFixed /\ UNCHANGED ws_db
  /\ UNCHANGED notWs

gemini_sheet_end_element ==
  /\ ws_impl \in {"gemini"}
  /\ \E name \in WsElements :
       /\ WsReadEnd(name)
       /\ LET r == gemini_sheet_end(ws_p, ws_db, name, WsPool(ws_prof))
          IN ws_p' = r.p /\ ws_db' = r.db
  /\ UNCHANGED wsFixed
  /\ UNCHANGED notWs

gemini_sheet_char_data ==
  /\ ws_impl \in {"gemini"}
  /\ \E data \in WsAllTexts : WsReadChars(data) /\ ws_p' = gemini_sheet_char(ws_p, data)
  /\ UNCHANGED wsFixed /\ UNCHANGED ws_db
  /\ UNCHANGED notWs

\* gemini importer, xlsx_import_func: the end of one pass of the sheet loop.
gemini_xlsx_import_func ==
  /\ ws_pc = "parse" /\ ws_impl = "gemini" /\ ws_open = <<>>
  /\ ws_count' = ws_count + 1
  /\ ws_rc' = "ok"
  /\ ws_pc' = "done"
  /\ UNCHANGED <<ws_impl, ws_prof, ws_open, ws_src, ws_p, ws_db>>
  /\ UNCHANGED notWs

WsNext ==
  \/ opus_ws_start_element \/ opus_ws_end_element \/ opus_ws_char_data
  \/ opus_create_table_from_worksheet
  \/ copilot_sheet_start_element \/ copilot_sheet_end_element
  \/ copilot_sheet_char_data
  \/ import_xlsx_to_db \/ import_xlsx_to_db_sanitizing
  \/ gemini_sheet_start_element \/ gemini_sheet_end_element
  \/ gemini_sheet_char_data \/ gemini_xlsx_import_func

WsImporters == {"opus", "copilot", "gemini"}

WsOff ==
  /\ ws_pc = "off" /\ ws_impl = "none" /\ ws_prof = "none"
  /\ ws_open = <<>> /\ ws_src = <<>> /\ ws_p = <<>>
  /\ ws_db = NoTable /\ ws_rc = "none" /\ ws_count = 0

\* The start of the sheet loop body: a database without the sheet's table and
\* the parser state of the importer.
WsInit(prof) ==
  /\ ws_pc = "parse"
  /\ ws_impl \in WsImporters
  /\ ws_prof = prof
  /\ ws_open = <<>> /\ ws_src = <<>>
  /\ ws_p = CASE ws_impl = "opus" -> opus_wsp_init
              [] ws_impl = "gemini" -> gemini_ctx_init
              [] OTHER -> copilot_sp_init
  /\ ws_db = NoTable /\ ws_rc = "none" /\ ws_count = 0

\* The row of the grid that the last closed <row> of the document gave: the
\* row of that number in the opus worksheet, the last emitted row in the
\* copilot importers.
WsGridRow ==
  IF ws_impl = "opus"
  THEN IF Len(ws_p.rows) >= WsLastRow THEN ws_p.rows[WsLastRow] ELSE <<>>
  ELSE ws_p.rows[Len(ws_p.rows)].cols

\* The cell of a declared row at column col, if any.
WsDeclared(row, col) == {k \in 1..Len(row.cells) : row.cells[k].col = col}

(* C1: when a worksheet row is closed by the grid builders (opus           *)
(* ws_set_cell, the copilot row buffer), the row holds a cell for every    *)
(* column up to its highest declared column, every column the source did   *)
(* not declare is an explicit Null, and a declared number keeps its text:  *)
(* a row declaring only columns 1 and 4 is [value1, Null, Null, value4].   *)
Thm_C1_RowIsDense ==
  (ws_pc = "parse" /\ ws_impl \in {"opus", "copilot"} /\ ws_open = <<>> /\ ws_src # <<>>) =>
    LET row == ws_src[Len(ws_src)]
    IN /\ Len(WsGridRow) = WsLastCol
       /\ \A col \in 1..WsLastCol :
            IF WsDeclared(row, col) = {}
            THEN WsGridRow[col] = NULL
            ELSE \A k \in WsDeclared(row, col) :
                   (row.cells[k].t = NULL /\ row.cells[k].v # NULL) =>
                     WsGridRow[col] = row.cells[k].v

Wit_C1_RowIsDense ==
  /\ ws_pc = "parse" /\ ws_impl \in {"opus", "copilot"} /\ ws_open = <<>>
  /\ WsLastRow = 2
  /\ WsCells = <<[col |-> 1, t |-> NULL, v |-> <<"7">>], [col |-> 4, t |-> NULL, v |-> <<"7">>]>>
  /\ WsGridRow = <<(<<"7">>), NULL, NULL, (<<"7">>)>>

\* Whether the declared cells of a row leave a column out before the last.
WsHasGap(row) ==
  \E col \in 1..(IF row.cells = <<>> THEN 0 ELSE row.cells[Len(row.cells)].col) :
    WsDeclared(row, col) = {}

\* The rows of the table that come from row r of the sheet.
WsStoredFrom(r) == {q \in 1..Len(ws_db.rows) : ws_db.rows[q].src = r}

(* C2: in the streaming importer that builds one INSERT statement per row  *)
(* (gemini sheet_start and sheet_end), every data row whose declared cells *)
(* skip columns, before its first cell or between two cells, is stored as  *)
(* one table row with Null in each skipped column and each declared value  *)
(* (a number, a shared string of the pool) in its own column.              *)
Cex_C2_GapsStoredAsNull ==
  (/\ ws_pc = "parse" /\ ws_impl = "gemini" /\ ws_open = <<>>
   /\ WsLastRow = 2
   /\ WsHasGap(ws_src[2])
   /\ WsLastCol <= Len(ws_src[1].cells)) =>
    /\ Cardinality(WsStoredFrom(2)) = 1
    /\ \A q \in WsStoredFrom(2) : \A col \in 1..WsLastCol :
         IF WsDeclared(ws_src[2], col) = {}
         THEN ws_db.rows[q].vals[col] = NULL
         ELSE \A k \in WsDeclared(ws_src[2], col) :
                LET cell == ws_src[2].cells[k]
                IN /\ (cell.t = NULL /\ cell.v # NULL) => ws_db.rows[q].vals[col] = cell.v
                   /\ (cell.t = TypeS /\ cell.v = itoa(MaxCol)) =>
                        ws_db.rows[q].vals[col] = PlainPool[MaxCol + 1]

\* The declared row of number r.
WsSrcRow(r) == ws_src[CHOOSE i \in 1..Len(ws_src) : ws_src[i].r = r]

(* C7: on import, a shared-string cell whose index is not below the pool   *)
(* size is stored as the empty string, and the import of the sheet goes on *)
(* without error.                                                          *)
Cex_C7_BadIndexIsEmptyString ==
  ws_pc = "done" =>
    /\ ws_rc = "ok"
    /\ \A q \in 1..Len(ws_db.rows) :
         LET row == WsSrcRow(ws_db.rows[q].src)
         IN \A k \in 1..Len(row.cells) :
              (/\ row.cells[k].t = TypeS
               /\ row.cells[k].v = BadIndex
               /\ row.cells[k].col <= Len(ws_db.cols)) =>
                ws_db.rows[q].vals[row.cells[k].col] = <<>>

\* The text of a header cell: the shared string of its index, "" for a cell
\* without value.
WsHeaderText(cell) ==
  IF cell.t = TypeS /\ cell.v # NULL /\ atoi(codes(cell.v)) < Len(WsPool(ws_prof))
  THEN WsPool(ws_prof)[atoi(codes(cell.v)) + 1]
  ELSE <<>>

\* The table column that the k-th declared header cell names: the column of
\* its letter, and in the streaming importer the k-th column.
WsColumnOf(k) == IF ws_impl = "gemini" THEN k ELSE ws_src[1].cells[k].col

IsPrefix(s, t) == Len(s) <= Len(t) /\ SubSeq(t, 1, Len(s)) = s

Cex_C10_HeaderNamesDistinct ==
  (/\ ws_pc = "done" /\ ws_impl \in {"opus", "copilot", "part_000"}
   /\ ws_src # <<>> /\ ws_src[1].r = 1 /\ ws_src[1].cells # <<>>) =>
    /\ ws_rc = "ok"
    /\ ws_db.created
    /\ \A i, j \in 1..Len(ws_db.cols) : ws_db.cols[i] = ws_db.cols[j] => i = j

(* C9: every row declared in a sheet after the header row becomes exactly  *)
(* one stored row, in source order, with Null in every column beyond the   *)
(* row's own highest declared column and the declared text in the columns  *)
(* up to it; a row number absent from the source adds no stored row.       *)
Cex_C9_EveryDeclaredRowStored ==
  (/\ ws_pc = "done" /\ ws_impl \in {"opus", "copilot", "part_000"}
   /\ ws_src # <<>> /\ ws_src[1].r = 1) =>
    /\ ws_db.created
    /\ Len(ws_db.rows) = Len(ws_src) - 1
    /\ \A q \in 1..Len(ws_db.rows) :
         /\ ws_db.rows[q].src = ws_src[q + 1].r
         /\ \A col \in 1..Len(ws_db.cols) :
              ws_db.rows[q].vals[col] =
                IF col > Len(ws_src[q + 1].cells) THEN NULL ELSE PlainPool[MaxCol + 1]

(***************************************************************************)
(* Export with the copilot exporter, import with the copilot importer      *)
(***************************************************************************)

\* Bounds on the table that is exported.
MaxTableCols == 2
MaxTableRows == 1

\* The name of the table's i-th column.
TableColumn(i) == <<"f">> \o itoa(i)

\* The values a field may hold, one per storage class the exporter tells
\* apart here: INTEGER, TEXT and NULL.  Texts hold no markup characters, so
\* xml_escape and expat leave them as they are.
TableValues ==
  <<[type |-> "integer", v |-> 7], [type |-> "text", v |-> <<"x">>],
    [type |-> "null", v |-> NULL]>>

\* SQLite, SELECT <list> FROM table: one result row per row of the table; a
\* string literal in the list yields its text in every row, a column name
\* <<"id", name>> yields the field of the row.
sql_select(list, table) ==
  [r \in 1..Len(table.rows) |->
     [c \in 1..Len(list) |->
        IF list[c][1] = "'" THEN [type |-> "text", v |-> list[c][2]]
        ELSE table.rows[r][CHOOSE i \in 1..Len(table.cols) : table.cols[i] = list[c][2]]]]

\* One call of an expat handler: a start tag with its attributes, an end tag
\* or character data.
XmlEvent(kind, name, atts, data) ==
  [kind |-> kind, name |-> name, atts |-> atts, data |-> data]
XmlStart(name, atts) == XmlEvent("start", name, atts, <<>>)
XmlEnd(name) == XmlEvent("end", name, <<>>, <<>>)

\* copilot exporter: what "<c ...><v>text</v></c>" and "<c .../>" parse to.
xp_cell(atts, text) ==
  <<XmlStart("c", atts), XmlStart("v", <<>>), XmlEvent("chars", "", <<>>, text),
    XmlEnd("v"), XmlEnd("c")>>
xp_cell_empty(atts) == <<XmlStart("c", atts), XmlEnd("c")>>

\* copilot exporter, build_worksheet_xml_with_sst: col_to_letters and the
\* snprintf of the cell reference.
xp_cellref(c, rownum) == col_to_letters(c, ColletSize) \o codes(itoa(rownum))

\* copilot exporter, build_worksheet_xml_with_sst: the loop of the header
\* row, with header_style_index 1.
RECURSIVE xp_header_row(_, _, _, _)
xp_header_row(colnames, c, s, out) ==
  IF c >= Len(colnames) THEN [sst |-> s, out |-> out]
  ELSE LET r == sst_index(s.items, s.cap, colnames[c + 1])
           atts == [r |-> xp_cellref(c, 1), s |-> itoa(1), t |-> TypeS]
       IN xp_header_row(colnames, c + 1, [items |-> r[1], cap |-> r[2]],
                        out \o xp_cell(atts, itoa(r[3])))

\* copilot exporter, build_worksheet_xml_with_sst: the cells of a data row.
RECURSIVE xp_data_cells(_, _, _, _, _)
xp_data_cells(row, c, rownum, s, out) ==
  IF c >= Len(row) THEN [sst |-> s, out |-> out]
  ELSE LET ref == xp_cellref(c, rownum)
           val == row[c + 1]
       IN CASE val.type = "integer" ->
                 xp_data_cells(row, c + 1, rownum, s,
                               out \o xp_cell([r |-> ref], itoa(val.v)))
            [] val.type = "null" ->
                 xp_data_cells(row, c + 1, rownum, s, out \o xp_cell_empty([r |-> ref]))
            [] OTHER ->
                 LET r == sst_index(s.items, s.cap, val.v)
                 IN xp_data_cells(row, c + 1, rownum, [items |-> r[1], cap |-> r[2]],
                                  out \o xp_cell([r |-> ref, t |-> TypeS], itoa(r[3])))

\* copilot exporter, build_worksheet_xml_with_sst: the loop over the rows the
\* SELECT returns, rownum starting at 2.
RECURSIVE xp_data_rows(_, _, _, _)
xp_data_rows(result, rownum, s, out) ==
  IF rownum - 1 > Len(result) THEN [sst |-> s, out |-> out]
  ELSE LET cells == xp_data_cells(result[rownum - 1], 0, rownum, s, <<>>)
       IN xp_data_rows(result, rownum + 1, cells.sst,
                       out \o <<XmlStart("row", [r |-> codes(itoa(rownum))])>>
                           \o cells.out \o <<XmlEnd("row")>>)

\* copilot exporter, build_worksheet_xml_with_sst for a table with columns:
\* the shared-string table and the sheetData written.  The SELECT list is
\* built with "%Q" from the column names.
build_worksheet_xml_with_sst(table, s) ==
  LET colnames == table.cols
      list == [i \in 1..Len(colnames) |-> mprintf_Q(colnames[i])]
      result == sql_select(list, table)
      header == xp_header_row(colnames, 0, s, <<XmlStart("row", [r |-> codes(itoa(1))])>>)
      lastcol == col_to_letters(Len(colnames) - 1, ColletSize)
      filter == <<XmlStart("autoFilter", [ref |-> xp_cellref(0, 1) \o <<58>> \o lastcol \o codes(itoa(1))]),
                  XmlEnd("autoFilter")>>
  IN xp_data_rows(result, 2, header.sst, header.out \o <<XmlEnd("row")>> \o filter)

\* copilot exporter, build_sharedstrings_xml, read by the copilot importer
\* (ss_start, ss_char, ss_end): the pool the importer resolves indices in.
RECURSIVE copilot_parse_shared(_, _, _)
copilot_parse_shared(items, i, p) ==
  IF i > Len(items) THEN p.strings
  ELSE LET a == copilot_ss_start(copilot_ss_start(p, "si"), "t")
           b == IF items[i] = <<>> THEN a ELSE copilot_ss_char(a, items[i])
       IN copilot_parse_shared(items, i + 1, copilot_ss_end(copilot_ss_end(b, "t"), "si"))

\* The pool read from the sharedStrings.xml the exporter wrote.
RtPool ==
  copilot_parse_shared(rt_sst.items, 1,
                       [strings |-> <<>>, in_t |-> FALSE, in_si |-> FALSE, current |-> NULL])

RtOff ==
  /\ rt_pc = "off" /\ rt_table = <<>> /\ rt_sst = <<>> /\ rt_q = <<>>
  /\ rt_p = <<>> /\ rt_db = NoTable

\* A table of the database before xlsx_export is called, and sst_init.
RtInit ==
  /\ rt_pc = "export"
  /\ \E w \in 1..MaxTableCols, n \in 0..MaxTableRows :
       \E f \in [1..n -> [1..w -> 1..Len(TableValues)]] :
         rt_table = [cols |-> [c \in 1..w |-> TableColumn(c)],
                     rows |-> [r \in 1..n |-> [c \in 1..w |-> TableValues[f[r][c]]]]]
  /\ rt_sst = [items |-> <<>>, cap |-> 0]
  /\ rt_q = <<>>
  /\ rt_p = copilot_sp_init
  /\ rt_db = NoTable

\* copilot exporter, xlsx_export_func: the worksheet and the shared strings
\* of the table are written.
xlsx_export_func ==
  /\ rt_pc = "export"
  /\ LET w == build_worksheet_xml_with_sst(rt_table, rt_sst)
     IN rt_sst' = w.sst /\ rt_q' = w.out
  /\ rt_pc' = "parse"
  /\ UNCHANGED <<rt_table, rt_p, rt_db>>
  /\ UNCHANGED notRt

\* copilot importer (part_001), XML_Parse of the worksheet: expat calls
\* sheet_start, sheet_char or sheet_end for the next piece of the document.
\* The white space between the elements reaches sheet_char outside <v> and is
\* dropped there.
XML_Parse_sheet ==
  /\ rt_pc = "parse" /\ rt_q # <<>>
  /\ LET ev == Head(rt_q)
     IN rt_p' = CASE ev.kind = "start" -> copilot_sheet_start(rt_p, ev.name, ev.atts)
                  [] ev.kind = "end" -> copilot_sheet_end(rt_p, ev.name, RtPool)
                  [] OTHER -> copilot_sheet_char(rt_p, ev.data)
  /\ rt_q' = Tail(rt_q)
  /\ UNCHANGED <<rt_pc, rt_table, rt_sst, rt_db>>
  /\ UNCHANGED notRt

\* copilot importer (part_001), import_xlsx_to_db after XML_Parse: the table
\* is created from the emitted rows.
import_sheet_rows ==
  /\ rt_pc = "parse" /\ rt_q = <<>>
  /\ rt_db' = copilot_create_table(rt_db, rt_p.rows, FALSE).db
  /\ rt_pc' = "done"
  /\ UNCHANGED <<rt_table, rt_sst, rt_q, rt_p>>
  /\ UNCHANGED notRt

RtNext ==
  \/ xlsx_export_func
  \/ XML_Parse_sheet
  \/ import_sheet_rows

\* The text a non-null value of the table reads as.
RtText(val) == IF val.type = "integer" THEN itoa(val.v) ELSE val.v

\* C4: a table exported by the copilot exporter and imported again by the
\* copilot importer has the same number of columns and of rows, every
\* non-null value at its position, and Null exactly where the table held NULL.
Cex_C4_ExportImportRoundTrip ==
  rt_pc = "done" =>
    /\ rt_db.created
    /\ Len(rt_db.cols) = Len(rt_table.cols)
    /\ Len(rt_db.rows) = Len(rt_table.rows)
    /\ \A r \in 1..Len(rt_table.rows), c \in 1..Len(rt_table.cols) :
         LET orig == rt_table.rows[r][c]
             back == rt_db.rows[r].vals[c]
         IN IF orig.type = "null" THEN back = NULL ELSE back = RtText(orig)

\* The sheet read has no row at all, or only a row 1 without cells.
WsEmptySheet == ws_src = <<>> \/ (Len(ws_src) = 1 /\ ws_src[1].r = 1 /\ ws_src[1].cells = <<>>)

\* C11: after the import of a sheet with zero rows, or with only a header row
\* of zero columns, the sheet's table exists, holds no data row, and the
\* sheet is counted in the number xlsx_import returns.
Cex_C11_EmptySheetHasTable ==
  (ws_pc = "done" /\ ws_impl \in {"opus", "copilot"} /\ WsEmptySheet) =>
    /\ ws_db.created
    /\ ws_db.rows = <<>>
    /\ ws_count = 1

(***************************************************************************)
(* One xlsx_import call: the sheets of the manifest, the selectors, the    *)
(* worksheet streams of the archive and the tables created                 *)
(***************************************************************************)

\* Bounds on the workbook: the number of sheets, and the largest sheetId and
\* worksheet stream number.
MaxSheets == 2
MaxSheetId == 3

\* The shared strings of the workbook: the header text of every sheet.
WbPool == <<(<<"c">>)>>

\* What expat reads of xl/worksheets/sheetN.xml: the header row with the
\* shared string 0 in A1 and one data row with the number N in A2.  A "bad"
\* stream is not well formed after the cell A2: expat has called the handlers
\* up to there when XML_Parse returns XML_STATUS_ERROR.
WbDoc(n, status) ==
  LET head == <<XmlStart("row", [r |-> codes(itoa(1))])>>
                \o xp_cell([r |-> CellRef(1, 1), t |-> TypeS], itoa(0))
                \o <<XmlEnd("row")>>
      data == <<XmlStart("row", [r |-> codes(itoa(2))])>>
                \o xp_cell([r |-> CellRef(1, 2)], itoa(n))
  IN IF status = "ok" THEN head \o data \o <<XmlEnd("row")>> ELSE head \o data

\* opus importer, parse_worksheet: the handlers called by XML_Parse.
RECURSIVE opus_parse_events(_, _, _)
opus_parse_events(events, i, p) ==
  IF i > Len(events) THEN p
  ELSE LET ev == events[i]
       IN opus_parse_events(events, i + 1,
            CASE ev.kind = "start" -> opus_ws_start(p, ev.name, ev.atts)
              [] ev.kind = "end" -> opus_ws_end(p, ev.name, WbPool)
              [] OTHER -> opus_ws_char(p, ev.data))

\* copilot importers, import_xlsx_to_db: the handlers called by XML_Parse.
RECURSIVE copilot_parse_events(_, _, _)
copilot_parse_events(events, i, p) ==
  IF i > Len(events) THEN p
  ELSE LET ev == events[i]
       IN copilot_parse_events(events, i + 1,
            CASE ev.kind = "start" -> copilot_sheet_start(p, ev.name, ev.atts)
              [] ev.kind = "end" -> copilot_sheet_end(p, ev.name, WbPool)
              [] OTHER -> copilot_sheet_char(p, ev.data))

\* gemini importer, xlsx_import_func: the handlers called by XML_Parse, which
\* write to the sheet's table as they go.
RECURSIVE gemini_parse_events(_, _, _, _)
gemini_parse_events(events, i, p, tab) ==
  IF i > Len(events) THEN tab
  ELSE LET ev == events[i]
       IN CASE ev.kind = "start" ->
                 gemini_parse_events(events, i + 1, gemini_sheet_start(p, ev.name, ev.atts), tab)
            [] ev.kind = "end" ->
                 LET r == gemini_sheet_end(p, tab, ev.name, WbPool)
                 IN gemini_parse_events(events, i + 1, r.p, r.db)
            [] OTHER ->
                 gemini_parse_events(events, i + 1, gemini_sheet_char(p, ev.data), tab)

\* SQLite: the position in the database of the table with this name (names
\* compare without case), 0 when there is none.
sql_find_table(db, name) ==
  IF \E k \in 1..Len(db) : sql_lower(db[k].name) = sql_lower(name)
  THEN CHOOSE k \in 1..Len(db) : sql_lower(db[k].name) = sql_lower(name)
  ELSE 0

\* SQLite: the table a statement naming `name` works on.
sql_table(db, name) ==
  IF sql_find_table(db, name) = 0 THEN NoTable ELSE db[sql_find_table(db, name)].tab

\* SQLite: the database after the statements on table `name` left it as tab.
sql_store_table(db, name, tab) ==
  IF sql_find_table(db, name) # 0 THEN [db EXCEPT ![sql_find_table(db, name)].tab = tab]
  ELSE IF tab.created THEN Append(db, [name |-> name, tab |-> tab])
  ELSE db

\* copilot importer, is_integer_string: an optional sign and then digits only.
is_integer_string(s) ==
  LET from == IF s # <<>> /\ s[1] \in {"+", "-"} THEN 2 ELSE 1
  IN /\ from <= Len(s)
     /\ \A k \in from..Len(s) : IsDigitCh(s[k])

\* copilot importer (part_001), should_import_sheet; xlsx_import_func has
\* turned every selector into its text.  The selectors of the model carry no
\* sign.
should_import_sheet(sheets, si, sheetId, selectors) ==
  \/ Len(selectors) <= 0
  \/ \E k \in 1..Len(selectors) :
       LET sel == selectors[k].text
       IN IF is_integer_string(sel)
          THEN atoi(codes(sel)) = sheetId \/ atoi(codes(sel)) = si + 1
          ELSE sheets[si + 1].name = sel

\* gemini importer, should_import: sqlite3_value_type decides how the
\* selector is compared.
should_import(selectors, sheet_idx, sheet_name) ==
  \/ Len(selectors) = 0
  \/ \E k \in 1..Len(selectors) :
       IF selectors[k].type = "integer" THEN atoi(codes(selectors[k].text)) = sheet_idx + 1
       ELSE selectors[k].type = "text" /\ selectors[k].text = sheet_name

\* The zipfile query for xl/worksheets/sheet<n>.xml.
read_zip_entry(zip, n) == IF n \in 1..Len(zip) THEN zip[n] ELSE "missing"

\* sqlite3_mprintf("\"%w\""): the name in double quotes, its quotes doubled.
mprintf_w(s) == <<Quote>> \o double_quotes(s) \o <<Quote>>

\* What one pass of the sheet loop leaves: the database, what it did with the
\* sheet at position pos (the stream it read, 0 for none; the table its
\* statements worked on, NULL for none) and the call's state.
WbPass(db, pos, selected, stream, table, counted, rc) ==
  [db |-> db, counted |-> counted, rc |-> rc,
   log |-> [pos |-> pos, selected |-> selected, stream |-> stream,
            table |-> IF table # NULL /\ sql_find_table(db, table) # 0 THEN table ELSE NULL]]

\* opus importer, xlsx_import_func: one pass of the sheet loop.
opus_import_sheet(db, sheets, zip, i) ==
  LET st == read_zip_entry(zip, i + 1)
      name == sql_ident(escape_identifier(sheets[i + 1].name))
      p == opus_parse_events(WbDoc(i + 1, st), 1, opus_wsp_init)
      r == opus_create_table(sql_table(db, name), p)
  IN IF st = "missing" THEN WbPass(db, i + 1, TRUE, 0, NULL, FALSE, "ok")
     ELSE IF st = "bad" THEN WbPass(db, i + 1, TRUE, i + 1, NULL, FALSE, "ok")
     ELSE WbPass(sql_store_table(db, name, r.db), i + 1, TRUE, i + 1, name,
                 r.rc = "ok", r.rc)

\* copilot importers, import_xlsx_to_db: one pass of the sheet loop; part_000
\* (sanitize) takes no selectors and names the table with sanitize_identifier.
copilot_import_sheet(db, sheets, selectors, zip, si, sanitize) ==
  LET sheetId == sheets[si + 1].sheetId
      stream == IF read_zip_entry(zip, sheetId) # "missing" THEN sheetId
                ELSE IF read_zip_entry(zip, si + 1) # "missing" THEN si + 1
                ELSE 0
      name == IF sanitize
              THEN sql_ident(<<Quote>> \o sanitize_identifier(sheets[si + 1].name) \o <<Quote>>)
              ELSE sql_ident(quote_identifier(sheets[si + 1].name))
      p == copilot_parse_events(WbDoc(stream, read_zip_entry(zip, stream)), 1, copilot_sp_init)
      r == copilot_create_table(sql_table(db, name), p.rows, sanitize)
  IN IF ~sanitize /\ ~should_import_sheet(sheets, si, sheetId, selectors)
     THEN WbPass(db, si + 1, FALSE, 0, NULL, FALSE, "ok")
     ELSE IF stream = 0 THEN WbPass(db, si + 1, TRUE, 0, NULL, FALSE, "ok")
     ELSE WbPass(sql_store_table(db, name, r.db), si + 1, TRUE, stream, name, r.counted, "ok")

\* gemini importer, xlsx_import_func: one pass of the sheet loop.
gemini_import_sheet(db, sheets, selectors, zip, i) ==
  LET st == read_zip_entry(zip, i + 1)
      name == sql_ident(mprintf_w(sheets[i + 1].name))
      tab == gemini_parse_events(WbDoc(i + 1, st), 1, gemini_ctx_init, sql_table(db, name))
  IN IF ~should_import(selectors, i, sheets[i + 1].name)
     THEN WbPass(db, i + 1, FALSE, 0, NULL, FALSE, "ok")
     ELSE IF st = "missing" THEN WbPass(db, i + 1, TRUE, 0, NULL, FALSE, "ok")
     ELSE WbPass(sql_store_table(db, name, tab), i + 1, TRUE, i + 1, name, TRUE, "ok")

\* The sheet names of the three kinds of call: "select" has names that differ
\* in case or length and selectors; "stream" has the names S1, S2, .. and
\* streams that are missing or not well formed; "names" has names with
\* characters sanitize_identifier replaces.
WbNames(prof) ==
  CASE prof = "select" -> <<(<<"A", "b">>), (<<"a", "b">>), (<<"A">>)>>
    [] prof = "names" -> <<(<<"a", " ", "b">>), (<<"a", "_", "b">>), (<<"A", "b">>)>>
    [] OTHER -> [k \in 1..MaxSheets |-> <<"S">> \o itoa(k)]

\* The arguments after the file name: none, or one integer, or one text that
\* is a sheet name, part of one, or a number.
WbSelectors ==
  {<<>>}
    \cup {<<[type |-> "integer", text |-> itoa(v)]>> : v \in 1..MaxSheetId}
    \cup {<<[type |-> "text", text |-> t]>> : t \in {<<"A", "b">>, <<"A">>, <<"2">>}}

WbOff ==
  /\ wb_pc = "off" /\ wb_impl = "none" /\ wb_prof = "none"
  /\ wb_sheets = <<>> /\ wb_sel = <<>> /\ wb_zip = <<>> /\ wb_i = 0
  /\ wb_db = <<>> /\ wb_log = <<>> /\ wb_count = 0 /\ wb_rc = "none"

\* xlsx_import after the manifest is read: the sheets, with names that differ
\* also without regard to case and sheetIds that differ, the selectors and
\* the archive; the database holds no table.
WbInit ==
  /\ wb_pc = "loop"
  /\ wb_prof \in {"select", "stream", "names"}
  /\ wb_impl \in IF wb_prof = "select" THEN {"copilot", "gemini"}
                 ELSE {"opus", "copilot", "part_000", "gemini"}
  /\ \E n \in 1..MaxSheets :
       \E nm \in [1..n -> 1..Len(WbNames(wb_prof))], id \in [1..n -> 1..MaxSheetId] :
         /\ \A j, k \in 1..n : j < k => (nm[j] # nm[k] /\ id[j] # id[k])
         /\ \A j, k \in 1..n :
              j < k => sql_lower(WbNames(wb_prof)[nm[j]]) # sql_lower(WbNames(wb_prof)[nm[k]])
         /\ wb_prof = "names" => \A k \in 1..n : id[k] = k
         /\ wb_prof = "stream" => \A k \in 1..n : nm[k] = k
         /\ wb_sheets = [k \in 1..n |-> [name |-> WbNames(wb_prof)[nm[k]], sheetId |-> id[k]]]
  /\ wb_sel \in IF wb_prof = "select" THEN WbSelectors ELSE {<<>>}
  /\ wb_zip \in IF wb_prof = "stream" THEN [1..MaxSheetId -> {"missing", "ok", "bad"}]
                ELSE {[k \in 1..MaxSheetId |-> "ok"]}
  /\ wb_i = 0
  /\ wb_db = <<>> /\ wb_log = <<>> /\ wb_count = 0 /\ wb_rc = "none"

\* The loop goes on after a pass r, or the call ends with an error.
WbAfterPass(r) ==
  /\ wb_db' = r.db
  /\ wb_log' = Append(wb_log, r.log)
  /\ wb_count' = IF r.counted THEN wb_count + 1 ELSE wb_count
  /\ IF r.rc = "error"
     THEN wb_pc' = "done" /\ wb_rc' = "error" /\ wb_i' = wb_i
     ELSE wb_pc' = "loop" /\ wb_rc' = wb_rc /\ wb_i' = wb_i + 1
  /\ UNCHANGED <<wb_impl, wb_prof, wb_sheets, wb_sel, wb_zip>>

\* opus importer, xlsx_import_func: the body of the sheet loop.
opus_xlsx_import_sheet ==
  /\ wb_pc = "loop" /\ wb_impl = "opus" /\ wb_i < Len(wb_sheets)
  /\ WbAfterPass(opus_import_sheet(wb_db, wb_sheets, wb_zip, wb_i))
  /\ UNCHANGED notWb

\* copilot importer (part_001), import_xlsx_to_db: the body of the sheet loop.
copilot_import_xlsx_sheet ==
  /\ wb_pc = "loop" /\ wb_impl = "copilot" /\ wb_i < Len(wb_sheets)
  /\ WbAfterPass(copilot_import_sheet(wb_db, wb_sheets, wb_sel, wb_zip, wb_i, FALSE))
  /\ UNCHANGED notWb

\* The older copilot importer (part_000), import_xlsx_to_db: the body of the
\* sheet loop.
part_000_import_xlsx_sheet ==
  /\ wb_pc = "loop" /\ wb_impl = "part_000" /\ wb_i < Len(wb_sheets)
  /\ WbAfterPass(copilot_import_sheet(wb_db, wb_sheets, wb_sel, wb_zip, wb_i, TRUE))
  /\ UNCHANGED notWb

\* gemini importer, xlsx_import_func: the body of the sheet loop.
gemini_xlsx_import_sheet ==
  /\ wb_pc = "loop" /\ wb_impl = "gemini" /\ wb_i < Len(wb_sheets)
  /\ WbAfterPass(gemini_import_sheet(wb_db, wb_sheets, wb_sel, wb_zip, wb_i))
  /\ UNCHANGED notWb

\* xlsx_import_func after the last sheet: sqlite3_result_int of the count.
xlsx_import_result ==
  /\ wb_pc = "loop" /\ wb_i = Len(wb_sheets)
  /\ wb_pc' = "done"
  /\ wb_rc' = "ok"
  /\ UNCHANGED <<wb_impl, wb_prof, wb_sheets, wb_sel, wb_zip, wb_i, wb_db, wb_log, wb_count>>
  /\ UNCHANGED notWb

WbNext ==
  \/ opus_xlsx_import_sheet
  \/ copilot_import_xlsx_sheet
  \/ part_000_import_xlsx_sheet
  \/ gemini_xlsx_import_sheet
  \/ xlsx_import_result

\* Whether the loop imported the sheet at position k.
WbSelected(k) == wb_log[k].selected

\* C12: with one integer selector v, a sheet is imported exactly when v is
\* its 1-based position in the manifest or, failing that, its declared id; the
\* sheet at position v is imported whatever its declared id is.
Cex_C12_IntegerSelector ==
  (wb_pc = "done" /\ wb_prof = "select" /\ wb_impl \in {"copilot", "gemini"}
     /\ Len(wb_sel) = 1 /\ wb_sel[1].type = "integer") =>
    LET v == atoi(codes(wb_sel[1].text))
    IN \A k \in 1..Len(wb_sheets) :
         WbSelected(k) <=> (k = v \/ wb_sheets[k].sheetId = v)

\* C13: with one text selector, a sheet is imported exactly when its display
\* name equals the selector character for character; the text is never taken
\* as a position or as a declared id.
Cex_C13_TextSelector ==
  (wb_pc = "done" /\ wb_prof = "select" /\ wb_impl \in {"copilot", "gemini"}
     /\ Len(wb_sel) = 1 /\ wb_sel[1].type = "text") =>
    \A k \in 1..Len(wb_sheets) : WbSelected(k) <=> wb_sheets[k].name = wb_sel[1].text

\* C14: the stream read for the sheet at position N of the manifest is
\* xl/worksheets/sheetN.xml, whatever the sheet's declared id is.
Cex_C14_StreamByPosition ==
  (wb_prof = "stream" /\ wb_impl \in {"opus", "copilot", "gemini"}) =>
    \A k \in 1..Len(wb_log) :
      /\ wb_log[k].stream # 0 => wb_log[k].stream = k
      /\ read_zip_entry(wb_zip, k) # "missing" => wb_log[k].stream = k

\* C15: after a call that imports every sheet, each sheet has its own table,
\* named as the sheet is displayed, no two sheets share a table, and the
\* tables were created in the order of the manifest.
Cex_C15_SheetsToTables ==
  (wb_pc = "done" /\ wb_prof = "names") =>
    /\ Len(wb_db) = Len(wb_sheets)
    /\ \A k \in 1..Len(wb_log) : wb_log[k].table = wb_sheets[k].name
    /\ \A k \in 1..Len(wb_db) : wb_db[k].name = wb_sheets[k].name
    /\ \A j, k \in 1..Len(wb_log) :
         j < k => sql_find_table(wb_db, wb_log[j].table) # sql_find_table(wb_db, wb_log[k].table)

\* C16: a sheet whose stream is not well formed gets no table and is not
\* counted, the sheets with well-formed streams are imported and counted, and
\* the call returns the count.
Cex_C16_MalformedSheetSkipped ==
  (wb_pc = "done" /\ wb_prof = "stream" /\ wb_impl \in {"opus", "copilot"}) =>
    /\ wb_rc = "ok"
    /\ \A k \in 1..Len(wb_log) :
         wb_log[k].stream # 0 =>
           IF wb_zip[wb_log[k].stream] = "bad"
           THEN wb_log[k].table = NULL /\ sql_find_table(wb_db, wb_sheets[k].name) = 0
           ELSE wb_log[k].table # NULL
    /\ wb_count = Cardinality({k \in 1..Len(wb_log) :
                                 wb_log[k].stream # 0 /\ wb_zip[wb_log[k].stream] = "ok"})

\* ---------------------------------------------------------------------------
\* Sheet names of an export: xlsx_export(file, table1, table2, ...).
\* ---------------------------------------------------------------------------

\* Largest number of table arguments of one xlsx_export call.
MaxTables == 2

\* EXCEL_SHEETNAME_MAX / EXCEL_MAX_SHEET_NAME_LEN / MAX_SHEET.
EXCEL_SHEETNAME_MAX == 31

\* The characters every sanitize_sheet_name tests for.
SheetForbidden == {":", "\\", "/", "?", "*", "[", "]"}
Apostrophe == "'"

\* isspace and the control-character test (c < 0x20) on the characters used.
isspace(c) == c \in {" ", "\t"}
iscntrl(c) == c = "\t"

is_sheet_char(c) == c \notin SheetForbidden
is_lxw_sheet_char(c) == c \notin SheetForbidden /\ ~iscntrl(c)

\* while(*name && isspace(*name)) name++;
RECURSIVE trim_leading_space(_)
trim_leading_space(s) ==
  IF s # <<>> /\ isspace(Head(s)) THEN trim_leading_space(Tail(s)) ELSE s

\* while(len > 0 && isspace(name[len-1])) len--;
RECURSIVE trim_trailing_space(_)
trim_trailing_space(s) ==
  IF s # <<>> /\ isspace(s[Len(s)]) THEN trim_trailing_space(SubSeq(s, 1, Len(s) - 1)) ELSE s

\* tmp[EXCEL_SHEETNAME_MAX] = '\0' when the text is longer.
truncate_sheet_name(s) == SubSeq(s, 1, Min(Len(s), EXCEL_SHEETNAME_MAX))

\* The value standing for a call that never returns.
Hang == <<"hang">>

\* copilot sanitize_sheet_name, the uniqueness loop: tmp is replaced by
\* "tmp (suffix)" cut to 31 characters until no earlier name equals it. A tmp
\* of 31 characters that conflicts is replaced by itself, so the loop does not
\* end.
RECURSIVE copilot_unique_loop(_, _, _)
copilot_unique_loop(tmp, suffix, existing) ==
  IF \A i \in 1..Len(existing) : existing[i] # tmp THEN tmp
  ELSE LET buf == truncate_sheet_name(tmp \o <<" ", "(">> \o itoa(suffix) \o <<")">>)
       IN IF buf = tmp THEN Hang ELSE copilot_unique_loop(buf, suffix + 1, existing)

\* copilot/xlsxexport.c, sanitize_sheet_name(name, idx, existing, existing_count).
copilot_sanitize_sheet_name(name, idx, existing) ==
  LET trimmed == trim_trailing_space(trim_leading_space(name))
      kept == SelectSeq(trimmed, is_sheet_char)
      lead == IF kept # <<>> /\ kept[1] = Apostrophe THEN Tail(kept) ELSE kept
      trail == IF lead # <<>> /\ lead[Len(lead)] = Apostrophe
               THEN SubSeq(lead, 1, Len(lead) - 1) ELSE lead
      named == IF trail = <<>> THEN <<"S", "h", "e", "e", "t">> \o itoa(idx + 1) ELSE trail
  IN copilot_unique_loop(truncate_sheet_name(named), 1, existing)

\* while (out_len > 0 && *start == '\'') { start++; out_len--; }
RECURSIVE trim_leading_quotes(_)
trim_leading_quotes(s) ==
  IF s # <<>> /\ Head(s) = Apostrophe THEN trim_leading_quotes(Tail(s)) ELSE s

\* while (out_len > 0 && start[out_len - 1] == '\'') out_len--;
RECURSIVE trim_trailing_quotes(_)
trim_trailing_quotes(s) ==
  IF s # <<>> /\ s[Len(s)] = Apostrophe
  THEN trim_trailing_quotes(SubSeq(s, 1, Len(s) - 1)) ELSE s

\* copilot/xlsxexport.c (libxlsxwriter variant), sanitize_sheet_name(name_in, index).
lxw_sanitize_sheet_name(name_in, index) ==
  LET kept == SelectSeq(name_in, is_lxw_sheet_char)
      trimmed == trim_trailing_space(trim_leading_space(kept))
      unquoted == trim_trailing_quotes(trim_leading_quotes(trimmed))
      out == truncate_sheet_name(unquoted)
  IN IF out = <<>> THEN <<"S", "h", "e", "e", "t">> \o itoa(index + 1) ELSE out

\* ensure_unique_name, the loop over suffix: snprintf(buf, "%s(%d)").
RECURSIVE ensure_unique_suffix(_, _, _)
ensure_unique_suffix(existing, candidate, suffix) ==
  LET buf == candidate \o <<"(">> \o itoa(suffix) \o <<")">>
  IN IF \E j \in 1..Len(existing) : existing[j] = buf
     THEN ensure_unique_suffix(existing, candidate, suffix + 1)
     ELSE buf

\* copilot/xlsxexport.c (libxlsxwriter variant), ensure_unique_name.
ensure_unique_name(existing, candidate) ==
  IF \E i \in 1..Len(existing) : existing[i] = candidate
  THEN ensure_unique_suffix(existing, candidate, 1)
  ELSE candidate

\* The letters of the reserved name, as the comparison lists them.
HistoryUpper == <<"H", "I", "S", "T", "O", "R", "Y">>
HistoryLower == <<"h", "i", "s", "t", "o", "r", "y">>

\* opus sanitize_sheet_name: result[j++] = '_' for a forbidden character.
opus_sheet_char(c) == IF c \in SheetForbidden THEN "_" ELSE c

\* opus/xlsximport.c, sanitize_sheet_name(name).
opus_sanitize_sheet_name(name) ==
  IF name = <<>> THEN <<"S", "h", "e", "e", "t">>
  ELSE
    LET len == Min(Len(name), EXCEL_SHEETNAME_MAX)
        copied == [i \in 1..len |-> opus_sheet_char(name[i])]
        lead == IF copied[1] = Apostrophe THEN [copied EXCEPT ![1] = "_"] ELSE copied
        result == IF lead[len] = Apostrophe THEN [lead EXCEPT ![len] = "_"] ELSE lead
    IN IF len = Len(HistoryUpper)
          /\ \A k \in 1..len : result[k] = HistoryUpper[k] \/ result[k] = HistoryLower[k]
       THEN <<"H", "i", "s", "t", "o", "r", "y", "_">>
       ELSE result

\* part_002, sanitize_sheet_name(name).
part_002_sanitize_sheet_name(name) ==
  truncate_sheet_name(SelectSeq(name, is_sheet_char))

\* Table names of the calls explored: a plain name, one with a forbidden
\* character, the empty name, names with apostrophes, a name of forbidden
\* characters only, names of 31 and 32 characters, the reserved name and a name
\* with a leading blank.
SnLongName == [i \in 1..EXCEL_SHEETNAME_MAX |-> "a"]
SnNamePool ==
  << <<"D", "a", "t", "a">>,
     <<"D", "a", ":", "t", "a">>,
     <<>>,
     <<"'", "'", "a">>,
     <<":">>,
     SnLongName,
     SubSeq(SnLongName, 1, EXCEL_SHEETNAME_MAX - 1) \o <<"'", "b">>,
     <<"h", "i", "s", "t", "o", "r", "y">>,
     <<" ", "D", "a", "t", "a">> >>

SnExporters == {"opus", "copilot", "copilot_lxw", "part_002"}

SnOff ==
  /\ sn_pc = "off"
  /\ sn_impl = "none"
  /\ sn_tables = <<>>
  /\ sn_names = <<>>

\* xlsx_export_func entered with argv[1..]: no sheet name derived yet.
SnInit ==
  /\ sn_pc = "loop"
  /\ sn_impl \in SnExporters
  /\ \E n \in 1..MaxTables :
       sn_tables \in {[i \in 1..n |-> SnNamePool[f[i]]] : f \in [1..n -> 1..Len(SnNamePool)]}
  /\ sn_names = <<>>

\* The loop index: the number of sheet names derived so far.
SnIndex == Len(sn_names)

\* copilot xlsx_export_func: sheet_names[i] = sanitize_sheet_name(raw, i, sheet_names, i).
copilot_xlsx_export_name ==
  /\ sn_impl = "copilot" /\ sn_pc = "loop" /\ SnIndex < Len(sn_tables)
  /\ LET name == copilot_sanitize_sheet_name(sn_tables[SnIndex + 1], SnIndex, sn_names)
     IN IF name = Hang
        THEN sn_pc' = "hang" /\ sn_names' = sn_names
        ELSE sn_pc' = sn_pc /\ sn_names' = Append(sn_names, name)
  /\ UNCHANGED <<sn_impl, sn_tables>>
  /\ UNCHANGED notSn

\* copilot xlsx_export_func (libxlsxwriter variant): sanitize, then ensure_unique_name.
lxw_xlsx_export_name ==
  /\ sn_impl = "copilot_lxw" /\ sn_pc = "loop" /\ SnIndex < Len(sn_tables)
  /\ sn_names' = Append(sn_names,
       ensure_unique_name(sn_names, lxw_sanitize_sheet_name(sn_tables[SnIndex + 1], SnIndex)))
  /\ UNCHANGED <<sn_pc, sn_impl, sn_tables>>
  /\ UNCHANGED notSn

\* opus gen_workbook: one <sheet name=...> per table, in argument order.
opus_gen_workbook_name ==
  /\ sn_impl = "opus" /\ sn_pc = "loop" /\ SnIndex < Len(sn_tables)
  /\ sn_names' = Append(sn_names, opus_sanitize_sheet_name(sn_tables[SnIndex + 1]))
  /\ UNCHANGED <<sn_pc, sn_impl, sn_tables>>
  /\ UNCHANGED notSn

\* part_002 xlsx_export: sheet_names[t] = sanitize_sheet_name(tbl).
part_002_xlsx_export_name ==
  /\ sn_impl = "part_002" /\ sn_pc = "loop" /\ SnIndex < Len(sn_tables)
  /\ sn_names' = Append(sn_names, part_002_sanitize_sheet_name(sn_tables[SnIndex + 1]))
  /\ UNCHANGED <<sn_pc, sn_impl, sn_tables>>
  /\ UNCHANGED notSn

\* The manifest xl/workbook.xml is written with the names derived.
write_workbook_xml ==
  /\ sn_pc = "loop" /\ SnIndex = Len(sn_tables)
  /\ sn_pc' = "done"
  /\ UNCHANGED <<sn_impl, sn_tables, sn_names>>
  /\ UNCHANGED notSn

SnNext ==
  \/ copilot_xlsx_export_name
  \/ lxw_xlsx_export_name
  \/ opus_gen_workbook_name
  \/ part_002_xlsx_export_name
  \/ write_workbook_xml

\* A sheet name that meets the rules of the format.
SnValidName(s) ==
  /\ s # <<>>
  /\ Len(s) <= EXCEL_SHEETNAME_MAX
  /\ \A i \in 1..Len(s) : s[i] \notin SheetForbidden
  /\ s[1] # Apostrophe
  /\ s[Len(s)] # Apostrophe

\* C17: every sheet name written to the manifest is non-empty, has at most
\* 31 characters, holds none of : \ / ? * [ ] and neither begins nor ends with
\* an apostrophe.
Cex_C17_SheetNameValid ==
  \A k \in 1..Len(sn_names) : SnValidName(sn_names[k])

\* C18: an export call completes with sheet names that differ pairwise and
\* have at most 31 characters each, also when table names repeat or sanitize to
\* the same text; two tables named Data give the names Data and Data (1).
Cex_C18_SheetNamesUnique ==
  /\ sn_pc # "hang"
  /\ sn_pc = "done" =>
       /\ \A j, k \in 1..Len(sn_names) : j < k => sn_names[j] # sn_names[k]
       /\ \A k \in 1..Len(sn_names) : Len(sn_names[k]) <= EXCEL_SHEETNAME_MAX
       /\ sn_tables = <<SnNamePool[1], SnNamePool[1]>> =>
            sn_names = <<SnNamePool[1], SnNamePool[1] \o <<" ", "(", "1", ")">> >>

\* ---------------------------------------------------------------------------
\* The worksheet an exporter writes for one table.
\* ---------------------------------------------------------------------------

\* Largest number of rows of an exported table.
MaxExportRows == 2

TypeN == <<"n">>

\* What "<c ...><is><t>text</t></is></c>" parses to.
xp_cell_inline(atts, text) ==
  <<XmlStart("c", atts), XmlStart("is", <<>>), XmlStart("t", <<>>)>>
    \o (IF text = <<>> THEN <<>> ELSE <<XmlEvent("chars", "", <<>>, text)>>)
    \o <<XmlEnd("t"), XmlEnd("is"), XmlEnd("c")>>

\* What "<autoFilter ref=.../>" parses to.
xp_autofilter(ref) == <<XmlStart("autoFilter", [ref |-> ref]), XmlEnd("autoFilter")>>

\* opus gen_worksheet: the header row, one inline string per column name,
\* style 1.
opus_header_row(colnames) ==
  LET cell(col) == xp_cell_inline([r |-> col_to_letter(col) \o codes(itoa(1)),
                                   t |-> TypeInlineStr, s |-> itoa(1)], colnames[col + 1])
      RECURSIVE loop(_, _)
      loop(col, out) == IF col < Len(colnames) THEN loop(col + 1, out \o cell(col)) ELSE out
  IN <<XmlStart("row", [r |-> codes(itoa(1))])>> \o loop(0, <<>>) \o <<XmlEnd("row")>>

\* opus gen_worksheet: the switch over sqlite3_column_type for one cell.
opus_data_cell(val, col, row_num) ==
  LET ref == col_to_letter(col) \o codes(itoa(row_num))
  IN CASE val.type = "integer" -> xp_cell([r |-> ref], itoa(val.v))
       [] val.type = "text" -> xp_cell_inline([r |-> ref, t |-> TypeInlineStr], val.v)
       [] OTHER -> <<>>

\* opus gen_worksheet: the loop over sqlite3_step, row_num starting at 2.
RECURSIVE opus_data_rows(_, _, _)
opus_data_rows(result, row_num, out) ==
  IF row_num - 1 > Len(result) THEN out
  ELSE LET row == result[row_num - 1]
           RECURSIVE cells(_, _)
           cells(col, acc) == IF col < Len(row)
                              THEN cells(col + 1, acc \o opus_data_cell(row[col + 1], col, row_num))
                              ELSE acc
       IN opus_data_rows(result, row_num + 1,
                         out \o <<XmlStart("row", [r |-> codes(itoa(row_num))])>>
                             \o cells(0, <<>>) \o <<XmlEnd("row")>>)

\* opus/xlsximport.c, gen_worksheet: SELECT * FROM the table, header row,
\* data rows, then the autofilter from A1 to the last column of last_row.
gen_worksheet(table) ==
  LET col_count == Len(table.cols)
      rows == opus_data_rows(table.rows, 2, <<>>)
      last_row == (2 + Len(table.rows)) - 1
      filter == IF col_count > 0
                THEN xp_autofilter(<<ChA>> \o codes(itoa(1)) \o <<58>>
                                     \o col_to_letter(col_count - 1) \o codes(itoa(last_row)))
                ELSE <<>>
  IN opus_header_row(table.cols) \o rows \o filter

\* part_002, int_to_col(n, buf).
int_to_col(n) == Reverse(col_to_letter_loop(n + 1, <<>>))

\* part_002 xlsx_export: one cell of a data row; a NULL is skipped, a number
\* is written with t="n" from sqlite3_column_text.
part_002_data_cell(val, c, r_idx) ==
  LET ref == int_to_col(c) \o codes(itoa(r_idx))
  IN CASE val.type = "null" -> <<>>
       [] val.type = "integer" -> xp_cell([r |-> ref, t |-> TypeN], itoa(val.v))
       [] OTHER -> xp_cell_inline([r |-> ref, t |-> TypeInlineStr], val.v)

\* part_002 xlsx_export, the sheet of one table: header from PRAGMA
\* table_info, rows from SELECT *, autofilter up to row r_idx - 1.
part_002_worksheet(table) ==
  LET col_count == Len(table.cols)
      RECURSIVE header(_, _)
      header(c, out) ==
        IF c < col_count
        THEN header(c + 1, out \o xp_cell_inline([r |-> int_to_col(c) \o codes(itoa(1)),
                                                  t |-> TypeInlineStr, s |-> itoa(1)],
                                                 table.cols[c + 1]))
        ELSE out
      RECURSIVE cells(_, _, _)
      cells(row, c, r_idx) ==
        IF c < col_count THEN part_002_data_cell(row[c + 1], c, r_idx) \o cells(row, c + 1, r_idx)
        ELSE <<>>
      RECURSIVE rows(_, _)
      rows(r_idx, out) ==
        IF r_idx - 1 > Len(table.rows) THEN [r_idx |-> r_idx, out |-> out]
        ELSE rows(r_idx + 1, out \o <<XmlStart("row", [r |-> codes(itoa(r_idx))])>>
                                 \o cells(table.rows[r_idx - 1], 0, r_idx) \o <<XmlEnd("row")>>)
      data == rows(2, <<>>)
      filter == IF col_count > 0
                THEN xp_autofilter(int_to_col(0) \o codes(itoa(1)) \o <<58>>
                                     \o int_to_col(col_count - 1) \o codes(itoa(data.r_idx - 1)))
                ELSE <<>>
  IN <<XmlStart("row", [r |-> codes(itoa(1))])>> \o header(0, <<>>) \o <<XmlEnd("row")>>
       \o data.out \o filter

ExExporters == {"opus", "copilot", "part_002"}

ExOff ==
  /\ ex_pc = "off" /\ ex_impl = "none" /\ ex_table = <<>> /\ ex_sst = <<>> /\ ex_out = <<>>

\* A table of the database before xlsx_export is called on it.
ExInit ==
  /\ ex_pc = "export"
  /\ ex_impl \in ExExporters
  /\ \E w \in 1..MaxTableCols, n \in 0..MaxExportRows :
       \E f \in [1..n -> [1..w -> 1..Len(TableValues)]] :
         ex_table = [cols |-> [c \in 1..w |-> TableColumn(c)],
                     rows |-> [r \in 1..n |-> [c \in 1..w |-> TableValues[f[r][c]]]]]
  /\ ex_sst = <<>>
  /\ ex_out = <<>>

\* opus xlsx_export_func: sheet_contents[i] = gen_worksheet(...).
opus_export_worksheet ==
  /\ ex_impl = "opus" /\ ex_pc = "export"
  /\ ex_out' = gen_worksheet(ex_table)
  /\ ex_pc' = "done"
  /\ UNCHANGED <<ex_impl, ex_table, ex_sst>>
  /\ UNCHANGED notEx

\* copilot xlsx_export_func: sst_init, then build_worksheet_xml_with_sst.
copilot_export_worksheet ==
  /\ ex_impl = "copilot" /\ ex_pc = "export"
  /\ LET w == build_worksheet_xml_with_sst(ex_table, [items |-> <<>>, cap |-> 0])
     IN ex_sst' = w.sst.items /\ ex_out' = w.out
  /\ ex_pc' = "done"
  /\ UNCHANGED <<ex_impl, ex_table>>
  /\ UNCHANGED notEx

\* part_002 xlsx_export: the pass of the table loop for the table.
part_002_export_worksheet ==
  /\ ex_impl = "part_002" /\ ex_pc = "export"
  /\ ex_out' = part_002_worksheet(ex_table)
  /\ ex_pc' = "done"
  /\ UNCHANGED <<ex_impl, ex_table, ex_sst>>
  /\ UNCHANGED notEx

ExNext ==
  \/ opus_export_worksheet
  \/ copilot_export_worksheet
  \/ part_002_export_worksheet

\* Where the worksheet written holds a cell with the given reference.
ExCellAt(ref) ==
  {i \in 1..Len(ex_out) :
     ex_out[i].kind = "start" /\ ex_out[i].name = "c" /\ ex_out[i].atts.r = ref}

\* What a reader finds in the cell that starts at event i: a number's text,
\* a text (inline or through the shared strings written) or nothing.
ExCellValue(i) ==
  LET atts == ex_out[i].atts
      t == IF "t" \in DOMAIN atts THEN atts.t ELSE TypeN
      inner == ex_out[i + 1]
  IN IF inner.kind = "end" THEN [type |-> "null", v |-> NULL]
     ELSE IF inner.name = "is"
     THEN [type |-> "text", v |-> IF ex_out[i + 3].kind = "chars" THEN ex_out[i + 3].data ELSE <<>>]
     ELSE IF t = TypeS
     THEN [type |-> "text", v |-> ex_sst[atoi(codes(ex_out[i + 2].data)) + 1]]
     ELSE [type |-> "integer", v |-> ex_out[i + 2].data]

\* The reference of column c (0-based) in sheet row r.
ExRef(c, r) == col_to_letter(c) \o codes(itoa(r))

\* C19: the cell of data row r and column c holds the table's value: an
\* integer as its decimal text in a numeric cell, a text as that text, a NULL
\* as a cell without a value.
Cex_C19_CellCarriesValue ==
  ex_pc = "done" =>
    \A r \in 1..Len(ex_table.rows) : \A c \in 1..Len(ex_table.cols) :
      LET val == ex_table.rows[r][c]
          at == ExCellAt(ExRef(c - 1, r + 1))
      IN /\ Cardinality(at) <= 1
         /\ at = {} => val.type = "null"
         /\ \A i \in at :
              LET got == ExCellValue(i)
              IN /\ got.type = val.type
                 /\ val.type = "integer" => got.v = itoa(val.v)
                 /\ val.type = "text" => got.v = val.v

\* C20: the autofilter of a table with N columns runs from A1 to column N of
\* the last row written, the header row when the table has no rows.
Cex_C20_AutofilterRegion ==
  ex_pc = "done" =>
    LET filters == {i \in 1..Len(ex_out) :
                      ex_out[i].kind = "start" /\ ex_out[i].name = "autoFilter"}
    IN /\ Cardinality(filters) = 1
       /\ \A i \in filters :
            ex_out[i].atts.ref = ExRef(0, 1) \o <<58>>
                                   \o ExRef(Len(ex_table.cols) - 1, 1 + Len(ex_table.rows))

\* ---------------------------------------------------------------------------
\* Long texts in an export.  A text of this part is a run of one letter and
\* is held as its length; cutting it to its first n characters gives the run
\* of length n.
\* ---------------------------------------------------------------------------

\* EXCEL_MAX_CELL_SIZE / EXCEL_CELL_CHAR_LIMIT / MAX_CELL_LEN.
EXCEL_MAX_CELL_SIZE == 32767

\* memcpy(dst, text, EXCEL_MAX_CELL_SIZE) when the text is longer, the text
\* itself otherwise.
truncate_cell(len) == IF len > EXCEL_MAX_CELL_SIZE THEN EXCEL_MAX_CELL_SIZE ELSE len

\* ExportWarnings warnings = {0, 0, 0, NULL}.
NoWarnings ==
  [cells_truncated |-> 0, first_truncated_row |-> 0, first_truncated_col |-> 0,
   first_truncated_table |-> 0]

\* opus gen_worksheet, case SQLITE_TEXT: the text written and the warnings
\* after the cell in column col (0-based) of sheet row row_num.
opus_text_cell(len, col, row_num, table_name, warnings) ==
  IF len > EXCEL_MAX_CELL_SIZE
  THEN [out |-> EXCEL_MAX_CELL_SIZE,
        warnings |->
          IF warnings.cells_truncated + 1 = 1
          THEN [cells_truncated |-> 1, first_truncated_row |-> row_num,
                first_truncated_col |-> col + 1, first_truncated_table |-> table_name]
          ELSE [warnings EXCEPT !.cells_truncated = @ + 1]]
  ELSE [out |-> len, warnings |-> warnings]

\* opus gen_worksheet, the cells of one row.
RECURSIVE opus_text_row(_, _, _, _, _, _)
opus_text_row(row, col, row_num, table_name, warnings, out) ==
  IF col >= Len(row) THEN [out |-> out, warnings |-> warnings]
  ELSE LET cell == opus_text_cell(row[col + 1], col, row_num, table_name, warnings)
       IN opus_text_row(row, col + 1, row_num, table_name, cell.warnings,
                        Append(out, cell.out))

\* opus gen_worksheet, the rows of the table, row_num starting at 2.
RECURSIVE opus_text_rows(_, _, _, _, _)
opus_text_rows(rows, row_num, table_name, warnings, out) ==
  IF row_num - 1 > Len(rows) THEN [out |-> out, warnings |-> warnings]
  ELSE LET r == opus_text_row(rows[row_num - 1], 0, row_num, table_name, warnings, <<>>)
       IN opus_text_rows(rows, row_num + 1, table_name, r.warnings, Append(out, r.out))

\* opus gen_worksheet: the header texts are written as sqlite3_column_name
\* gives them, the data texts are cut.
opus_gen_worksheet_texts(table, warnings) ==
  LET data == opus_text_rows(table.rows, 2, table.name, warnings, <<>>)
  IN [hdr |-> table.cols, rows |-> data.out, warnings |-> data.warnings]

\* copilot build_worksheet_xml_with_sst: header and data texts are cut before
\* sst_index; the SELECT list holds the column names as string literals, so
\* the text of a data cell is the name of its column.
copilot_worksheet_texts(table) ==
  [hdr |-> [c \in 1..Len(table.cols) |-> truncate_cell(table.cols[c])],
   rows |-> [r \in 1..Len(table.rows) |->
               [c \in 1..Len(table.cols) |-> truncate_cell(table.cols[c])]]]

\* part_002 xlsx_export: a text longer than MAX_CELL_LEN is logged with
\* sqlite3_log and written whole.
part_002_worksheet_texts(table) ==
  [hdr |-> table.cols, rows |-> table.rows]

TrExporters == {"opus", "copilot", "part_002"}

\* The lengths of the data texts explored: at the limit, one above it, and
\* the 40,000 characters of the documented example.
TrLengths == <<EXCEL_MAX_CELL_SIZE, EXCEL_MAX_CELL_SIZE + 1, 40000>>

\* The tables explored: up to MaxTableCols columns, the first with a short or
\* an over-long name, and up to MaxTableRows rows of texts.
TrTables ==
  UNION {
    { [cols |-> [c \in 1..w |-> IF c = 1 THEN h ELSE 2],
       rows |-> [r \in 1..n |-> [c \in 1..w |-> TrLengths[f[r][c]]]]]
      : f \in [1..n -> [1..w -> 1..Len(TrLengths)]] }
    : w \in 1..MaxTableCols, n \in 0..MaxTableRows, h \in {1, EXCEL_MAX_CELL_SIZE + 1} }

TrOff ==
  /\ tr_pc = "off" /\ tr_impl = "none" /\ tr_tables = <<>> /\ tr_out = <<>>
  /\ tr_warn = NoWarnings /\ tr_result = "none"

\* xlsx_export(file, t1, .., tk) entered: every table exists, nothing written.
TrInit ==
  /\ tr_pc = "export"
  /\ tr_impl \in TrExporters
  /\ \E k \in 1..MaxTables :
       \E g \in [1..k -> TrTables] :
         tr_tables = [i \in 1..k |-> [name |-> i, cols |-> g[i].cols, rows |-> g[i].rows]]
  /\ tr_out = <<>>
  /\ tr_warn = NoWarnings
  /\ tr_result = "none"

\* opus xlsx_export_func: gen_worksheet of the next table.
opus_export_texts ==
  /\ tr_impl = "opus" /\ tr_pc = "export" /\ Len(tr_out) < Len(tr_tables)
  /\ LET w == opus_gen_worksheet_texts(tr_tables[Len(tr_out) + 1], tr_warn)
     IN /\ tr_out' = Append(tr_out, [hdr |-> w.hdr, rows |-> w.rows])
        /\ tr_warn' = w.warnings
  /\ UNCHANGED <<tr_pc, tr_impl, tr_tables, tr_result>>
  /\ UNCHANGED notTr

\* copilot xlsx_export_func: build_worksheet_xml_with_sst of the next table.
copilot_export_texts ==
  /\ tr_impl = "copilot" /\ tr_pc = "export" /\ Len(tr_out) < Len(tr_tables)
  /\ tr_out' = Append(tr_out, copilot_worksheet_texts(tr_tables[Len(tr_out) + 1]))
  /\ UNCHANGED <<tr_pc, tr_impl, tr_tables, tr_warn, tr_result>>
  /\ UNCHANGED notTr

\* part_002 xlsx_export: the pass of the table loop for the next table.
part_002_export_texts ==
  /\ tr_impl = "part_002" /\ tr_pc = "export" /\ Len(tr_out) < Len(tr_tables)
  /\ tr_out' = Append(tr_out, part_002_worksheet_texts(tr_tables[Len(tr_out) + 1]))
  /\ UNCHANGED <<tr_pc, tr_impl, tr_tables, tr_warn, tr_result>>
  /\ UNCHANGED notTr

\* opus xlsx_export_func: the file name, followed by the warning when cells
\* were truncated.
opus_export_result ==
  /\ tr_impl = "opus" /\ tr_pc = "export" /\ Len(tr_out) = Len(tr_tables)
  /\ tr_result' = [kind |-> "text", warning |-> tr_warn.cells_truncated > 0,
                   cells |-> tr_warn.cells_truncated,
                   table |-> tr_warn.first_truncated_table,
                   row |-> tr_warn.first_truncated_row,
                   col |-> tr_warn.first_truncated_col]
  /\ tr_pc' = "done"
  /\ UNCHANGED <<tr_impl, tr_tables, tr_out, tr_warn>>
  /\ UNCHANGED notTr

\* copilot xlsx_export_func: sqlite3_result_int(context, 0).
copilot_export_result ==
  /\ tr_impl = "copilot" /\ tr_pc = "export" /\ Len(tr_out) = Len(tr_tables)
  /\ tr_result' = [kind |-> "int", warning |-> FALSE, cells |-> 0, table |-> 0,
                   row |-> 0, col |-> 0]
  /\ tr_pc' = "done"
  /\ UNCHANGED <<tr_impl, tr_tables, tr_out, tr_warn>>
  /\ UNCHANGED notTr

\* part_002 xlsx_export: returns without setting a result.
part_002_export_result ==
  /\ tr_impl = "part_002" /\ tr_pc = "export" /\ Len(tr_out) = Len(tr_tables)
  /\ tr_result' = [kind |-> "null", warning |-> FALSE, cells |-> 0, table |-> 0,
                   row |-> 0, col |-> 0]
  /\ tr_pc' = "done"
  /\ UNCHANGED <<tr_impl, tr_tables, tr_out, tr_warn>>
  /\ UNCHANGED notTr

TrNext ==
  \/ opus_export_texts
  \/ copilot_export_texts
  \/ part_002_export_texts
  \/ opus_export_result
  \/ copilot_export_result
  \/ part_002_export_result

\* C21: every text written, header or data, has at most 32,767 characters,
\* and the text of a data cell is the table's text cut to its first 32,767
\* characters: a text of 40,000 characters is written as 32,767.
Cex_C21_TextsTruncated ==
  \A i \in 1..Len(tr_out) :
    /\ \A c \in 1..Len(tr_out[i].hdr) : tr_out[i].hdr[c] <= EXCEL_MAX_CELL_SIZE
    /\ \A r \in 1..Len(tr_out[i].rows) : \A c \in 1..Len(tr_out[i].rows[r]) :
         tr_out[i].rows[r][c] = truncate_cell(tr_tables[i].rows[r][c])

\* The cells of the call whose text is longer than the limit, as
\* <<table, sheet row, column>>, the header being sheet row 1.
TrLongCells ==
  {x \in (1..Len(tr_tables)) \X {1} \X (1..MaxTableCols) :
     x[3] <= Len(tr_tables[x[1]].cols) /\ tr_tables[x[1]].cols[x[3]] > EXCEL_MAX_CELL_SIZE}
  \cup
  {x \in (1..Len(tr_tables)) \X (2..MaxTableRows + 1) \X (1..MaxTableCols) :
     /\ x[2] - 1 <= Len(tr_tables[x[1]].rows)
     /\ x[3] <= Len(tr_tables[x[1]].cols)
     /\ tr_tables[x[1]].rows[x[2] - 1][x[3]] > EXCEL_MAX_CELL_SIZE}

\* x comes before y in processing order: table, then row, then column.
TrBefore(x, y) ==
  \/ x[1] < y[1]
  \/ x[1] = y[1] /\ x[2] < y[2]
  \/ x[1] = y[1] /\ x[2] = y[2] /\ x[3] < y[3]

\* C22: an export with over-long texts succeeds, and its result tells how
\* many cells were truncated, which is the number of cells whose text was
\* longer than 32,767 characters, and the table, row and column of the first
\* of them in processing order.
Cex_C22_TruncationReported ==
  (tr_pc = "done" /\ TrLongCells # {}) =>
    /\ tr_result.warning
    /\ tr_result.cells = Cardinality(TrLongCells)
    /\ \E x \in TrLongCells :
         /\ \A y \in TrLongCells : y = x \/ TrBefore(x, y)
         /\ tr_result.table = x[1] /\ tr_result.row = x[2] /\ tr_result.col = x[3]

(***************************************************************************)
(* The export call as a whole: xlsx_export(filename [, table, ...]).       *)
(* The database holds three tables; a table argument may name a table that *)
(* does not exist, and the row scan of a table may end with a storage      *)
(* error.  What is modelled is which archive parts the call writes and in  *)
(* which order, the sheets of the manifest and the relationships of        *)
(* xl/_rels/workbook.xml.rels, the result of the call, and what happens to *)
(* the worksheet buffers of the copilot exporter.                          *)
(***************************************************************************)

\* Table names, as the characters of the name.
PkT1 == <<"t", "1">>
PkT2 == <<"t", "2">>
Pk00 == <<"0", "0">>
PkMissing == <<"z", "z">>

\* The tables of the database in rowid order, that is, in the order they were
\* created; "00" is the table name the export tests of test_linux.sh use.
PkDbNames == <<PkT2, Pk00, PkT1>>

PkArgNames == {PkT1, PkT2, Pk00, PkMissing}

PkExporters == {"opus", "copilot", "opus_lxw", "part_002"}

\* The table arguments of a call: up to MaxTables different names, or none.
PkArgs ==
  UNION {{a \in [1..k -> PkArgNames] : \A i, j \in 1..k : a[i] = a[j] => i = j} :
         k \in 0..MaxTables}

table_exists(db, name) == \E i \in 1..Len(db) : db[i].name = name

\* How the row scan of an existing table ends: "done" (SQLITE_DONE) or "error".
scan_rc(db, name) == db[CHOOSE i \in 1..Len(db) : db[i].name = name].scan

first_of(S) == CHOOSE i \in S : \A j \in S : i <= j

\* A table name that SQL reads as an identifier without quotes around it.
sql_bare_name(name) ==
  /\ name # <<>>
  /\ isalpha(codes(name)[1]) \/ name[1] = "_"
  /\ \A i \in 1..Len(name) :
       isalpha(codes(name)[i]) \/ isdigit(codes(name)[i]) \/ name[i] = "_"

\* memcmp order of two names (the BINARY collation of ORDER BY name).
RECURSIVE name_less(_, _)
name_less(a, b) ==
  IF a = <<>> THEN b # <<>>
  ELSE IF b = <<>> THEN FALSE
  ELSE IF a[1] # b[1] THEN a[1] < b[1]
  ELSE name_less(Tail(a), Tail(b))

\* SELECT name FROM sqlite_master ... ORDER BY rowid
enumerate_by_rowid(db) == [i \in 1..Len(db) |-> db[i].name]

\* SELECT name FROM sqlite_master ... ORDER BY name
enumerate_by_name(db) ==
  CHOOSE s \in [1..Len(db) -> {db[i].name : i \in 1..Len(db)}] :
    \A i, j \in 1..Len(db) : i < j => name_less(codes(s[i]), codes(s[j]))

sheet_path(i) == "xl/worksheets/sheet" \o ToString(i) \o ".xml"
sheet_target(i) == "worksheets/sheet" \o ToString(i) \o ".xml"
rId(i) == "rId" \o ToString(i)

\* An archive part; table is the table a worksheet part was generated from.
ZipPart(path) == [path |-> path, table |-> NULL]
SheetPart(i, table) == [path |-> sheet_path(i), table |-> table]
Relationship(id, target) == [id |-> id, target |-> target]
SheetEntry(name, i) == [name |-> name, sheetId |-> i, rid |-> rId(i)]

PkNoResult == [kind |-> "none", table |-> NULL]
PkError(table) == [kind |-> "error", table |-> table]

\* ---- opus ----

\* gen_worksheet: NULL with an error message naming the table when the query
\* cannot be prepared or the scan does not end with SQLITE_DONE.
gen_worksheet_rc(db, name) ==
  IF ~table_exists(db, name) THEN "prepare"
  ELSE IF scan_rc(db, name) # "done" THEN "read"
  ELSE "ok"

gen_workbook_rels(sheet_count) ==
  <<Relationship("rIdStyles", "styles.xml")>>
    \o [i \in 1..sheet_count |-> Relationship(rId(i), sheet_target(i))]

gen_workbook(sheet_names) ==
  [i \in 1..Len(sheet_names) |-> SheetEntry(opus_sanitize_sheet_name(sheet_names[i]), i)]

\* The rows of the contents table handed to zipfile().
opus_zip_contents(sheet_names) ==
  <<ZipPart("[Content_Types].xml"), ZipPart("_rels/.rels"),
    ZipPart("xl/_rels/workbook.xml.rels"), ZipPart("xl/workbook.xml")>>
    \o [i \in 1..Len(sheet_names) |-> SheetPart(i, sheet_names[i])]
    \o <<ZipPart("xl/styles.xml")>>

\* ---- copilot ----

\* build_worksheet_xml_with_sst: PRAGMA table_info of a missing table has no
\* rows, so colcount = 0 and an empty worksheet is returned with SQLITE_OK;
\* the SELECT appends the table name as it is; the value sqlite3_step ends
\* the row loop with is not looked at.
build_worksheet_rc(db, name) ==
  IF ~table_exists(db, name) THEN "ok"
  ELSE IF ~sql_bare_name(name) THEN "prepare"
  ELSE "ok"

build_workbook_rels(sheet_count) ==
  [i \in 1..sheet_count |-> Relationship(rId(i), sheet_target(i))]
    \o <<Relationship("rIdStyles", "styles.xml")>>

RECURSIVE copilot_sheet_names(_, _)
copilot_sheet_names(raw, done) ==
  IF Len(done) = Len(raw) THEN done
  ELSE copilot_sheet_names(raw,
         Append(done, copilot_sanitize_sheet_name(raw[Len(done) + 1], Len(done), done)))

build_workbook_xml(sheet_names) ==
  [i \in 1..Len(sheet_names) |-> SheetEntry(sheet_names[i], i)]

\* The zipfile inserts of xlsx_export_func, in the order they are made.
copilot_zip_inserts(raw) ==
  <<ZipPart("_rels/"), ZipPart("docProps/"), ZipPart("xl/"), ZipPart("xl/_rels/"),
    ZipPart("xl/worksheets/"), ZipPart("[Content_Types].xml"), ZipPart("_rels/.rels"),
    ZipPart("docProps/core.xml"), ZipPart("docProps/app.xml"),
    ZipPart("xl/styles.xml"), ZipPart("xl/sharedStrings.xml")>>
    \o [i \in 1..Len(raw) |-> SheetPart(i, raw[i])]
    \o <<ZipPart("xl/_rels/workbook.xml.rels"), ZipPart("xl/workbook.xml")>>

\* cleanup_error: mw_free(&worksheets[i]) for every i < sheet_count.  The
\* buffers up to the table that failed were set up by mw_init and are
\* released; the later ones were never written since malloc, so mw_free
\* tests an indeterminate pointer: it finds NULL and does nothing ("never"),
\* or finds something else and hands it to free ("wild").
cleanup_error_bufs(sheet_count, failed) ==
  {b \in [1..sheet_count -> {"released", "never", "wild"}] :
     \A i \in 1..sheet_count : (b[i] = "released") <=> (i <= failed)}

\* ---- part_002 ----

generate_workbook_rels(num_sheets) ==
  [i \in 1..num_sheets |-> Relationship(rId(i), sheet_target(i))]
    \o <<Relationship(rId(num_sheets + 1), "styles.xml")>>

generate_workbook(table_names) ==
  [i \in 1..Len(table_names) |->
     SheetEntry(part_002_sanitize_sheet_name(table_names[i]), i)]

part_002_zip_writes(table_names) ==
  <<ZipPart("[Content_Types].xml"), ZipPart("_rels/.rels"), ZipPart("xl/styles.xml"),
    ZipPart("xl/workbook.xml"), ZipPart("xl/_rels/workbook.xml.rels")>>
    \o [i \in 1..Len(table_names) |-> SheetPart(i, table_names[i])]

\* ---- the call ----

PkOff ==
  /\ pk_pc = "off" /\ pk_impl = "none" /\ pk_db = <<>> /\ pk_args = <<>>
  /\ pk_parts = <<>> /\ pk_sheets = <<>> /\ pk_rels = <<>>
  /\ pk_result = PkNoResult /\ pk_bufs = <<>>

\* The call is entered: no file exists at the target path.
PkInit ==
  /\ pk_pc = "call"
  /\ pk_impl \in PkExporters
  /\ \E bad \in 0..Len(PkDbNames) :
       pk_db = [i \in 1..Len(PkDbNames) |->
                  [name |-> PkDbNames[i], scan |-> IF i = bad THEN "error" ELSE "done"]]
  /\ pk_args \in PkArgs
  /\ pk_parts = <<>> /\ pk_sheets = <<>> /\ pk_rels = <<>>
  /\ pk_result = PkNoResult /\ pk_bufs = <<>>

\* opus xlsx_export_func.
opus_xlsx_export_func ==
  /\ pk_impl = "opus" /\ pk_pc = "call"
  /\ LET sheet_count == Len(pk_args)
         failed == {i \in 1..sheet_count : gen_worksheet_rc(pk_db, pk_args[i]) # "ok"}
     IN IF sheet_count < 1
        THEN /\ pk_result' = PkError(NULL)
             /\ UNCHANGED <<pk_parts, pk_sheets, pk_rels>>
        ELSE IF failed # {}
        THEN /\ pk_result' = PkError(pk_args[first_of(failed)])
             /\ UNCHANGED <<pk_parts, pk_sheets, pk_rels>>
        ELSE /\ pk_parts' = opus_zip_contents(pk_args)
             /\ pk_sheets' = gen_workbook(pk_args)
             /\ pk_rels' = gen_workbook_rels(sheet_count)
             /\ pk_result' = [kind |-> "text", table |-> NULL]
  /\ pk_pc' = "done"
  /\ UNCHANGED <<pk_impl, pk_db, pk_args, pk_bufs>>
  /\ UNCHANGED notPk

\* copilot xlsx_export_func, every zipfile insert succeeding.
copilot_xlsx_export_func ==
  /\ pk_impl = "copilot" /\ pk_pc = "call"
  /\ LET sheet_count == Len(pk_args)
         failed == {i \in 1..sheet_count : build_worksheet_rc(pk_db, pk_args[i]) # "ok"}
         inserts == copilot_zip_inserts(pk_args)
     IN IF sheet_count < 1
        THEN /\ pk_result' = PkError(NULL)
             /\ UNCHANGED <<pk_parts, pk_sheets, pk_rels, pk_bufs>>
        ELSE IF failed # {}
        THEN /\ pk_result' = PkError(pk_args[first_of(failed)])
             /\ pk_bufs' \in cleanup_error_bufs(sheet_count, first_of(failed))
             /\ UNCHANGED <<pk_parts, pk_sheets, pk_rels>>
        ELSE /\ pk_parts' = inserts
             /\ pk_sheets' = build_workbook_xml(copilot_sheet_names(pk_args, <<>>))
             /\ pk_rels' = build_workbook_rels(sheet_count)
             /\ pk_result' = [kind |-> "int", table |-> NULL]
             /\ pk_bufs' \in cleanup_error_bufs(sheet_count, sheet_count)
  /\ pk_pc' = "done"
  /\ UNCHANGED <<pk_impl, pk_db, pk_args>>
  /\ UNCHANGED notPk

\* opus_libxlsxwriter xlsx_export_func: export_table_to_sheet adds the
\* worksheet to the workbook before it prepares the query, and every exit
\* after workbook_new_opt goes through workbook_close, which saves the
\* workbook with the worksheets added so far.
lxw_xlsx_export_func ==
  /\ pk_impl = "opus_lxw" /\ pk_pc = "call"
  /\ LET tables == IF Len(pk_args) = 0 THEN enumerate_by_rowid(pk_db) ELSE pk_args
         failed == {i \in 1..Len(tables) : gen_worksheet_rc(pk_db, tables[i]) # "ok"}
         added == IF failed = {} THEN Len(tables) ELSE first_of(failed)
     IN /\ pk_parts' = [i \in 1..added |-> SheetPart(i, tables[i])]
        /\ pk_result' = IF failed = {} THEN [kind |-> "text", table |-> NULL]
                        ELSE PkError(tables[first_of(failed)])
  /\ pk_pc' = "done"
  /\ UNCHANGED <<pk_impl, pk_db, pk_args, pk_sheets, pk_rels, pk_bufs>>
  /\ UNCHANGED notPk

\* part_002 xlsx_export: the package parts are written first, then one
\* worksheet per table whatever the queries return; no result is set.
part_002_xlsx_export ==
  /\ pk_impl = "part_002" /\ pk_pc = "call"
  /\ LET table_names == IF Len(pk_args) = 0 THEN enumerate_by_name(pk_db) ELSE pk_args
     IN /\ pk_parts' = part_002_zip_writes(table_names)
        /\ pk_sheets' = generate_workbook(table_names)
        /\ pk_rels' = generate_workbook_rels(Len(table_names))
  /\ pk_result' = [kind |-> "null", table |-> NULL]
  /\ pk_pc' = "done"
  /\ UNCHANGED <<pk_impl, pk_db, pk_args, pk_bufs>>
  /\ UNCHANGED notPk

PkNext ==
  \/ opus_xlsx_export_func
  \/ copilot_xlsx_export_func
  \/ lxw_xlsx_export_func
  \/ part_002_xlsx_export

\* The worksheet parts written, in the order written.
PkSheetParts == SelectSeq(pk_parts, LAMBDA p : p.table # NULL)

\* The call ended without an error.
PkSucceeded == pk_pc = "done" /\ pk_result.kind \in {"text", "int", "null"}

\* The tables the call was asked to export.
PkRequested == IF Len(pk_args) = 0 THEN {pk_db[i].name : i \in 1..Len(pk_db)}
               ELSE {pk_args[i] : i \in 1..Len(pk_args)}

\* A table among the arguments that the database does not hold.
PkMissingArgs == {i \in 1..Len(pk_args) : ~table_exists(pk_db, pk_args[i])}

\* The named tables whose row scan ends with a storage error.
PkScanErrors ==
  {i \in 1..Len(pk_args) :
     table_exists(pk_db, pk_args[i]) /\ scan_rc(pk_db, pk_args[i]) = "error"}

\* The part a relationship of xl/_rels/workbook.xml.rels points at.
PkRelPath(r) == "xl/" \o r.target

\* C23: an export of N named tables by an exporter that assembles the package
\* itself writes exactly the worksheet parts sheet1..sheetN, part i from the
\* i-th table; the manifest lists N sheets in that order, sheet i bound
\* through xl/_rels/workbook.xml.rels to part i; and the styles and shared
\* strings parts written are each the target of a relationship of that file.
Cex_C23_PackageParts ==
  (PkSucceeded /\ pk_impl # "opus_lxw" /\ Len(pk_args) >= 1) =>
    /\ PkSheetParts = [i \in 1..Len(pk_args) |-> SheetPart(i, pk_args[i])]
    /\ Len(pk_sheets) = Len(pk_args)
    /\ \A i \in 1..Len(pk_sheets) :
         \E k \in 1..Len(pk_rels) :
           /\ pk_rels[k].id = pk_sheets[i].rid
           /\ PkRelPath(pk_rels[k]) = sheet_path(i)
           /\ \A m \in 1..Len(pk_rels) : pk_rels[m].id = pk_rels[k].id => m = k
    /\ \A p \in 1..Len(pk_parts) :
         pk_parts[p].path \in {"xl/styles.xml", "xl/sharedStrings.xml"} =>
           \E k \in 1..Len(pk_rels) : PkRelPath(pk_rels[k]) = pk_parts[p].path

\* C24: when a named table does not exist the call ends with an error and no
\* worksheet is written for that table; the error names a missing table when
\* the other named tables can be read.
Cex_C24_MissingTableAborts ==
  (pk_pc = "done" /\ PkMissingArgs # {}) =>
    /\ pk_result.kind = "error"
    /\ \A p \in 1..Len(PkSheetParts) : table_exists(pk_db, PkSheetParts[p].table)
    /\ (\A i \in 1..Len(pk_args) :
          table_exists(pk_db, pk_args[i]) =>
            scan_rc(pk_db, pk_args[i]) = "done" /\ sql_bare_name(pk_args[i]))
       => \E i \in PkMissingArgs : pk_result.table = pk_args[i]

\* C25: when the row scan of a named table ends with a storage error the call
\* ends with an error and no archive part has been written.
Cex_C25_ScanErrorNoArchive ==
  (pk_pc = "done" /\ PkScanErrors # {}) =>
    pk_result.kind = "error" /\ pk_parts = <<>>

\* C26: a call with only the file name, on a database whose tables can all be
\* read, succeeds and writes one worksheet per table of the database, in the
\* order of an enumeration of the schema.
Cex_C26_FileNameOnlyExportsAll ==
  (pk_pc = "done" /\ pk_args = <<>>
     /\ \A i \in 1..Len(pk_db) : pk_db[i].scan = "done") =>
    /\ PkSucceeded
    /\ \E order \in {enumerate_by_rowid(pk_db), enumerate_by_name(pk_db)} :
         PkSheetParts = [i \in 1..Len(pk_db) |-> SheetPart(i, order[i])]

\* C30: on an error exit of the copilot xlsx_export_func only worksheet
\* buffers that mw_init set up are handed to free.
Cex_C30_OnlyInitialisedReleased ==
  (pk_impl = "copilot" /\ pk_pc = "done" /\ pk_result.kind = "error") =>
    \A i \in 1..Len(pk_bufs) : pk_bufs[i] # "wild"

\* C27: the uniqueness loop of the copilot sanitize_sheet_name comes to an end
\* for every table name and every list of names assigned before it, names of
\* 31 characters included.
Cex_C27_UniqueLoopTerminates ==
  sn_impl = "copilot" => sn_pc # "hang"

(***************************************************************************)
(* Cell types: the worksheet handlers of the opus and copilot importers on *)
(* the cells of one row, each cell with any type attribute and with its    *)
(* text in a <v>, in an <is><t>, or without text.                          *)
(***************************************************************************)

\* Largest number of cells of the row.
MaxCells == 2

\* The shared strings of the workbook: index 0 and index 1.
CePool == <<(<<"a">>), (<<"b">>)>>

\* The cell elements a row may hold: t absent (NULL) or one of the types, and
\* form "none" for <c/>, "v" for <c><v>data</v></c>, "is" for
\* <c><is><t>data</t></is></c>.
CeCells ==
  {[t |-> t, form |-> "none", data |-> <<>>] :
     t \in {NULL, TypeS, TypeStr, TypeInlineStr, TypeB}}
    \cup {[t |-> t, form |-> "v", data |-> d] :
            t \in {NULL, TypeS, TypeStr, TypeInlineStr, TypeB}, d \in {<<>>, <<"1">>}}
    \cup {[t |-> t, form |-> "is", data |-> d] :
            t \in {NULL, TypeS, TypeStr, TypeInlineStr, TypeB}, d \in {<<>>, <<"x">>}}

\* The calls expat makes for the text of a cell; no call for empty text.
CeChars(data) == IF data = <<>> THEN <<>> ELSE <<XmlEvent("chars", "", <<>>, data)>>

\* The calls expat makes for a cell element in column col of row 1.
CeEvents(cell, col) ==
  <<XmlStart("c", IF cell.t = NULL THEN [r |-> CellRef(col, 1)]
                  ELSE [r |-> CellRef(col, 1), t |-> cell.t])>>
    \o (CASE cell.form = "v" -> <<XmlStart("v", <<>>)>> \o CeChars(cell.data) \o <<XmlEnd("v")>>
          [] cell.form = "is" ->
               <<XmlStart("is", <<>>), XmlStart("t", <<>>)>> \o CeChars(cell.data)
                 \o <<XmlEnd("t"), XmlEnd("is")>>
          [] OTHER -> <<>>)
    \o <<XmlEnd("c")>>

\* One handler call of the opus worksheet parser.
opus_ws_handle(p, e) ==
  CASE e.kind = "start" -> opus_ws_start(p, e.name, e.atts)
    [] e.kind = "end" -> opus_ws_end(p, e.name, CePool)
    [] OTHER -> opus_ws_char(p, e.data)

\* One handler call of the copilot sheet parser.
copilot_sheet_handle(p, e) ==
  CASE e.kind = "start" -> copilot_sheet_start(p, e.name, e.atts)
    [] e.kind = "end" -> copilot_sheet_end(p, e.name, CePool)
    [] OTHER -> copilot_sheet_char(p, e.data)

CeImporters == {"opus", "copilot"}

CeOff ==
  /\ ce_pc = "off" /\ ce_impl = "none" /\ ce_p = <<>> /\ ce_doc = <<>> /\ ce_q = <<>>

\* The parser has read <row r="1">.
CeInit ==
  /\ ce_pc = "parse"
  /\ ce_impl \in CeImporters
  /\ ce_p = IF ce_impl = "opus"
            THEN opus_ws_start(opus_wsp_init, "row", [r |-> codes(itoa(1))])
            ELSE copilot_sheet_start(copilot_sp_init, "row", [r |-> codes(itoa(1))])
  /\ ce_doc = <<>>
  /\ ce_q = <<>>

\* The next call is the start tag of the next cell of the row, or the next
\* call of the cell being read.
CeReads(kind, e) ==
  /\ ce_pc = "parse"
  /\ e.kind = kind
  /\ IF ce_q # <<>>
     THEN e = Head(ce_q) /\ ce_q' = Tail(ce_q) /\ ce_doc' = ce_doc
     ELSE /\ Len(ce_doc) < MaxCells
          /\ \E cell \in CeCells :
               /\ e = Head(CeEvents(cell, Len(ce_doc) + 1))
               /\ ce_q' = Tail(CeEvents(cell, Len(ce_doc) + 1))
               /\ ce_doc' = Append(ce_doc, cell)

\* Every call expat can make.
CeAllEvents ==
  UNION {{CeEvents(cell, col)[k] : k \in 1..Len(CeEvents(cell, col))} :
         cell \in CeCells, col \in 1..MaxCells}

opus_cell_start_element ==
  /\ ce_impl = "opus"
  /\ \E e \in CeAllEvents : CeReads("start", e) /\ ce_p' = opus_ws_handle(ce_p, e)
  /\ UNCHANGED <<ce_pc, ce_impl>>
  /\ UNCHANGED notCe

opus_cell_char_data ==
  /\ ce_impl = "opus"
  /\ \E e \in CeAllEvents : CeReads("chars", e) /\ ce_p' = opus_ws_handle(ce_p, e)
  /\ UNCHANGED <<ce_pc, ce_impl>>
  /\ UNCHANGED notCe

opus_cell_end_element ==
  /\ ce_impl = "opus"
  /\ \E e \in CeAllEvents : CeReads("end", e) /\ ce_p' = opus_ws_handle(ce_p, e)
  /\ UNCHANGED <<ce_pc, ce_impl>>
  /\ UNCHANGED notCe

copilot_cell_start_element ==
  /\ ce_impl = "copilot"
  /\ \E e \in CeAllEvents : CeReads("start", e) /\ ce_p' = copilot_sheet_handle(ce_p, e)
  /\ UNCHANGED <<ce_pc, ce_impl>>
  /\ UNCHANGED notCe

copilot_cell_char_data ==
  /\ ce_impl = "copilot"
  /\ \E e \in CeAllEvents : CeReads("chars", e) /\ ce_p' = copilot_sheet_handle(ce_p, e)
  /\ UNCHANGED <<ce_pc, ce_impl>>
  /\ UNCHANGED notCe

copilot_cell_end_element ==
  /\ ce_impl = "copilot"
  /\ \E e \in CeAllEvents : CeReads("end", e) /\ ce_p' = copilot_sheet_handle(ce_p, e)
  /\ UNCHANGED <<ce_pc, ce_impl>>
  /\ UNCHANGED notCe

CeNext ==
  \/ opus_cell_start_element \/ opus_cell_char_data \/ opus_cell_end_element
  \/ copilot_cell_start_element \/ copilot_cell_char_data \/ copilot_cell_end_element

\* The cells whose end tag has been read.
CeClosed == IF ce_q = <<>> THEN Len(ce_doc) ELSE Len(ce_doc) - 1

\* The value a parser state holds for the cell of column col of row 1.
CeValueIn(impl, p, col) == IF impl = "opus" THEN p.rows[1][col] ELSE p.rowbuf[col]

CeStored(col) == CeValueIn(ce_impl, ce_p, col)

\* The opus parser state after the calls of events, starting from p.
RECURSIVE opus_ws_run(_, _)
opus_ws_run(p, events) ==
  IF events = <<>> THEN p ELSE opus_ws_run(opus_ws_handle(p, Head(events)), Tail(events))

\* The value the opus parser stores for the cell when no cell was parsed
\* before it.
CeAlone(cell, col) ==
  CeValueIn("opus", opus_ws_run(opus_ws_start(opus_wsp_init, "row", [r |-> codes(itoa(1))]),
                                CeEvents(cell, col)), col)

\* C28: in the opus worksheet parser the value stored for a cell is the value
\* the same cell element gets when no cell was parsed before it.
Cex_C28_CellValueOwnData ==
  ce_impl = "opus" =>
    \A col \in 1..CeClosed : CeStored(col) = CeAlone(ce_doc[col], col)

\* C29: a cell whose type attribute is not exactly "s" and that holds
\* character data keeps that character data as its value.
Cex_C29_OnlyTypeSResolved ==
  \A col \in 1..CeClosed :
    (ce_doc[col].t # TypeS /\ ce_doc[col].data # <<>>) =>
      CeStored(col) = ce_doc[col].data

(***************************************************************************)
(* Specifications                                                          *)
(***************************************************************************)

InitCol == SstOff /\ SsOff /\ WsOff /\ RtOff /\ WbOff /\ SnOff /\ ExOff /\ TrOff /\ PkOff /\ CeOff /\ ColInit
SpecCol == InitCol /\ [][ColNext]_vars

InitSst == ColOff /\ SsOff /\ WsOff /\ RtOff /\ WbOff /\ SnOff /\ ExOff /\ TrOff /\ PkOff /\ CeOff /\ SstInit
SpecSst == InitSst /\ [][SstNext]_vars

InitSs == ColOff /\ SstOff /\ WsOff /\ RtOff /\ WbOff /\ SnOff /\ ExOff /\ TrOff /\ PkOff /\ CeOff /\ SsInit
SpecSs == InitSs /\ [][SsNext]_vars

InitCells == ColOff /\ SstOff /\ SsOff /\ RtOff /\ WbOff /\ SnOff /\ ExOff /\ TrOff /\ PkOff /\ CeOff /\ WsInit("cells")
SpecCells == InitCells /\ [][WsNext]_vars

InitHeader == ColOff /\ SstOff /\ SsOff /\ RtOff /\ WbOff /\ SnOff /\ ExOff /\ TrOff /\ PkOff /\ CeOff /\ WsInit("header")
SpecHeader == InitHeader /\ [][WsNext]_vars

InitRows == ColOff /\ SstOff /\ SsOff /\ RtOff /\ WbOff /\ SnOff /\ ExOff /\ TrOff /\ PkOff /\ CeOff /\ WsInit("rows")
SpecRows == InitRows /\ [][WsNext]_vars

InitRoundTrip == ColOff /\ SstOff /\ SsOff /\ WsOff /\ WbOff /\ SnOff /\ ExOff /\ TrOff /\ PkOff /\ CeOff /\ RtInit
SpecRoundTrip == InitRoundTrip /\ [][RtNext]_vars

InitWorkbook == ColOff /\ SstOff /\ SsOff /\ WsOff /\ RtOff /\ SnOff /\ ExOff /\ TrOff /\ PkOff /\ CeOff /\ WbInit
SpecWorkbook == InitWorkbook /\ [][WbNext]_vars

InitSheetNames == ColOff /\ SstOff /\ SsOff /\ WsOff /\ RtOff /\ WbOff /\ ExOff /\ TrOff /\ PkOff /\ CeOff /\ SnInit
SpecSheetNames == InitSheetNames /\ [][SnNext]_vars

InitWorksheet == ColOff /\ SstOff /\ SsOff /\ WsOff /\ RtOff /\ WbOff /\ SnOff /\ TrOff /\ PkOff /\ CeOff /\ ExInit
SpecWorksheet == InitWorksheet /\ [][ExNext]_vars

InitTruncation == ColOff /\ SstOff /\ SsOff /\ WsOff /\ RtOff /\ WbOff /\ SnOff /\ ExOff /\ PkOff /\ CeOff /\ TrInit
SpecTruncation == InitTruncation /\ [][TrNext]_vars

InitPackage == ColOff /\ SstOff /\ SsOff /\ WsOff /\ RtOff /\ WbOff /\ SnOff /\ ExOff /\ TrOff /\ CeOff /\ PkInit
SpecPackage == InitPackage /\ [][PkNext]_vars

InitCellTypes == ColOff /\ SstOff /\ SsOff /\ WsOff /\ RtOff /\ WbOff /\ SnOff /\ ExOff /\ TrOff /\ PkOff /\ CeInit
SpecCellTypes == InitCellTypes /\ [][CeNext]_vars

====
